---- MODULE Spec2Model ----
(***************************************************************************)
(* Model of source/fe/fe_values.cc (deal.II): the evaluation context       *)
(* FEValuesBase and its three classes FEValues, FEFaceValues and           *)
(* FESubfaceValues, the reinit protocol with cell-similarity detection and *)
(* the mesh subscriptions, the row table, the view descriptors and the     *)
(* accumulation kernels of FEValuesViews.  Assertions are enabled, as in a  *)
(* debug build: a failed Assert ends the call and is recorded by its       *)
(* exception.  Numbers are integers.                                       *)
(***************************************************************************)
EXTENDS Integers, Sequences, FiniteSets, TLC

VARIABLES
  ctx,        \* the evaluation contexts: FEValuesBase objects, by context id
  slots,      \* the slots connected to the signals of the triangulations
  n_threads,  \* MultithreadInfo::n_threads()
  codim,      \* spacedim - dim of the instantiation
  last,       \* the last operation, its arguments, the state it started from
              \* and the calls it made to the mapping and the finite element
  dim,        \* the template argument dim of the instantiation
  fe,         \* the finite element the contexts were constructed with
  finite_element_output,
              \* FEValuesBase::finite_element_output: the row table and the
              \* tables of shape values and derivatives
  view,       \* the FEValuesViews object constructed last
  result      \* the last call of an accessor or of a kernel and what it gave

lifecycle_vars == <<ctx, slots, n_threads, codim, last>>

element_vars_but_result == <<dim, fe, finite_element_output, view>>

element_vars == <<dim, fe, finite_element_output, view, result>>

vars == <<ctx, slots, n_threads, codim, last,
          dim, fe, finite_element_output, view, result>>

-----------------------------------------------------------------------------
(* Bounds and the fixed universe of the lifecycle model *)

\* largest number of worker threads MultithreadInfo::n_threads() reports
MaxThreads == 2

\* the evaluation contexts; the class of each (FEValues, FEFaceValues or
\* FESubfaceValues) is chosen when it is constructed
Contexts == {1}

Trias == {1, 2}

\* the cells of the two triangulations: vertices of a line cell and its
\* direction flag.  Cells 1, 2, 3 are translates of each other, cell 3 has
\* the opposite direction flag, cell 4 is no translate of them; cells 5 and
\* 6 are the translates of cells 1 and 2 on the second triangulation.
CellTable ==
  << [tria |-> 1, vertex |-> <<0, 1>>, direction_flag |-> TRUE],
     [tria |-> 1, vertex |-> <<1, 2>>, direction_flag |-> TRUE],
     [tria |-> 1, vertex |-> <<2, 3>>, direction_flag |-> FALSE],
     [tria |-> 1, vertex |-> <<0, 2>>, direction_flag |-> TRUE],
     [tria |-> 2, vertex |-> <<0, 1>>, direction_flag |-> TRUE],
     [tria |-> 2, vertex |-> <<1, 2>>, direction_flag |-> FALSE] >>

Cells == DOMAIN CellTable

get_triangulation(cell) == CellTable[cell].tria

direction_flag(cell) == CellTable[cell].direction_flag

\* TriaAccessor::is_translation_of: all vertices differ by the same vector
is_translation_of(cell, other) ==
  \A i \in 1..2 :
    CellTable[cell].vertex[i] - CellTable[other].vertex[i] =
      CellTable[cell].vertex[1] - CellTable[other].vertex[1]

\* CellSimilarity::Similarity
Similarity == {"none", "translation", "inverted_translation",
               "invalid_next_cell"}

\* the signals of Triangulation::Signals the contexts connect to
Signals == {"post_refinement", "any_change", "mesh_movement"}

\* the changes a triangulation announces, with the signals each one fires,
\* in the order in which the triangulation fires them
MeshEvents == {"refinement", "topology_change", "mesh_movement"}

SignalsOf(event) ==
  CASE event = "refinement"      -> <<"post_refinement", "any_change">>
    [] event = "topology_change" -> <<"any_change">>
    [] event = "mesh_movement"   -> <<"mesh_movement">>

\* UpdateFlags: the flags the accessors test, and update_mapping, the flags
\* that make a reinit call the mapping
update_mapping == {"update_quadrature_points", "update_JxW_values"}

ValueFlags == {"update_values", "update_gradients", "update_hessians",
               "update_3rd_derivatives"}

\* the classes of evaluation context
Kinds == {"FEValues", "FEFaceValues", "FESubfaceValues"}

\* CellIteratorContainer(): initialized(false), cell(nullptr, -1, -1),
\* dof_handler(nullptr)
NoCell == [initialized |-> FALSE, cell |-> -1, dof_handler |-> FALSE]

\* CellIteratorContainer(cell): initialized(true), cell(cell); dof_handler
\* is nullptr for an iterator into the triangulation and the DoFHandler of
\* the cell for an iterator into a DoFHandler
CellIteratorContainer(cell, dof_handler) ==
  [initialized |-> TRUE, cell |-> cell, dof_handler |-> dof_handler]

\* a default-constructed boost::signals2::connection: refers to no slot
NoConnection == [tria |-> 0, signal |-> "none", c |-> 0]

-----------------------------------------------------------------------------
(* FEValuesBase: construction, invalidation, subscriptions *)

\* FEValuesBase::FEValuesBase and the initialize() of the three classes:
\* no present cell, no connection, cell_similarity none, the update flags
\* as closed by compute_update_flags
FEValuesBase(kind, update_flags) ==
  [ alive                        |-> TRUE,
    kind                         |-> kind,
    update_flags                 |-> update_flags,
    present_cell                 |-> NoCell,
    tria_listener_refinement     |-> NoConnection,
    tria_listener_mesh_transform |-> NoConnection,
    cell_similarity              |-> "none" ]

\* the state an operation works on: the contexts, the connected slots, the
\* assertions that failed during the operation and the calls it made to its
\* collaborators
World(c_, s_) == [ctx |-> c_, slots |-> s_, failed |-> {}, calls |-> <<>>]

\* boost::signals2::connection::disconnect(), on both listeners of context c
disconnect_listeners(c, W) ==
  [W EXCEPT
     !.slots = @ \ {W.ctx[c].tria_listener_refinement,
                    W.ctx[c].tria_listener_mesh_transform},
     !.ctx[c].tria_listener_refinement     = NoConnection,
     !.ctx[c].tria_listener_mesh_transform = NoConnection]

\* an invalidate_present_cell that disconnects tria_listener_refinement
\* only
invalidate_present_cell_keeping_mesh_transform(c, W) ==
  LET asserted == IF W.ctx[c].present_cell.initialized
                    THEN W.failed
                    ELSE W.failed \cup {"ExcInternalError"}
  IN  [W EXCEPT !.failed = asserted,
                !.slots = @ \ {W.ctx[c].tria_listener_refinement},
                !.ctx[c].tria_listener_refinement = NoConnection,
                !.ctx[c].present_cell = NoCell]

\* FEValuesBase::invalidate_present_cell
invalidate_present_cell(c, W) ==
  LET asserted == IF W.ctx[c].present_cell.initialized
                    THEN W.failed
                    ELSE W.failed \cup {"ExcInternalError"}
      D == disconnect_listeners(c, W)
  IN  [D EXCEPT !.failed = asserted,
                !.ctx[c].present_cell = NoCell]

\* signal.connect([this]() { this->invalidate_present_cell(); }) for both
\* listeners of context c: the handles are overwritten, the slots they
\* referred to stay connected unless they were disconnected before
connect_listeners(c, W, tria, refinement_signal) ==
  LET r == [tria |-> tria, signal |-> refinement_signal, c |-> c]
      m == [tria |-> tria, signal |-> "mesh_movement", c |-> c]
  IN  [W EXCEPT
         !.slots = @ \cup {r, m},
         !.ctx[c].tria_listener_refinement     = r,
         !.ctx[c].tria_listener_mesh_transform = m]

\* maybe_invalidate_previous_present_cell connecting to the new
\* triangulation without invalidate_present_cell() first
maybe_invalidate_keeping_connections(c, W, cell) ==
  IF W.ctx[c].present_cell.initialized
    THEN IF get_triangulation(cell) #
              get_triangulation(W.ctx[c].present_cell.cell)
           THEN connect_listeners(c, W, get_triangulation(cell), "any_change")
           ELSE W
    ELSE connect_listeners(c, W, get_triangulation(cell), "post_refinement")

\* maybe_invalidate_previous_present_cell moving the connections to the
\* new triangulation without resetting present_cell
maybe_invalidate_keeping_present_cell(c, W, cell) ==
  IF W.ctx[c].present_cell.initialized
    THEN IF get_triangulation(cell) #
              get_triangulation(W.ctx[c].present_cell.cell)
           THEN connect_listeners(c, disconnect_listeners(c, W),
                                  get_triangulation(cell), "any_change")
           ELSE W
    ELSE connect_listeners(c, W, get_triangulation(cell), "post_refinement")

\* FEValuesBase::maybe_invalidate_previous_present_cell
maybe_invalidate_previous_present_cell(c, W, cell) ==
  IF W.ctx[c].present_cell.initialized
    THEN IF get_triangulation(cell) #
              get_triangulation(W.ctx[c].present_cell.cell)
           THEN connect_listeners(c, invalidate_present_cell(c, W),
                                  get_triangulation(cell), "any_change")
           ELSE W
    ELSE connect_listeners(c, W, get_triangulation(cell), "post_refinement")

\* check_cell_similarity without the test for invalid_next_cell
check_cell_similarity_reusing_invalid(obj, cell, threads, cd) ==
  IF threads > 1
    THEN "none"
    ELSE LET first ==
               IF obj.present_cell.initialized = FALSE
                 THEN "none"
                 ELSE IF is_translation_of(cell, obj.present_cell.cell)
                        THEN "translation"
                        ELSE "none"
         IN  IF cd > 0 /\ first = "translation"
               THEN IF direction_flag(obj.present_cell.cell) #
                         direction_flag(cell)
                      THEN "inverted_translation"
                      ELSE first
               ELSE first

\* check_cell_similarity without the test of MultithreadInfo::n_threads()
check_cell_similarity_any_threads(obj, cell, threads, cd) ==
  LET first ==
        IF obj.present_cell.initialized = FALSE
          THEN "none"
          ELSE IF obj.cell_similarity = "invalid_next_cell"
                 THEN "none"
                 ELSE IF is_translation_of(cell, obj.present_cell.cell)
                        THEN "translation"
                        ELSE "none"
  IN  IF cd > 0 /\ first = "translation"
        THEN IF direction_flag(obj.present_cell.cell) # direction_flag(cell)
               THEN "inverted_translation"
               ELSE first
        ELSE first

\* check_cell_similarity without the comparison of the direction flags
check_cell_similarity_without_direction_flag(obj, cell, threads, cd) ==
  IF threads > 1
    THEN "none"
    ELSE IF obj.present_cell.initialized = FALSE
           THEN "none"
           ELSE IF obj.cell_similarity = "invalid_next_cell"
                  THEN "none"
                  ELSE IF is_translation_of(cell, obj.present_cell.cell)
                         THEN "translation"
                         ELSE "none"

\* FEValuesBase::check_cell_similarity: the new value of cell_similarity
check_cell_similarity(obj, cell, threads, cd) ==
  IF threads > 1
    THEN "none"
    ELSE LET first ==
               IF obj.present_cell.initialized = FALSE
                 THEN "none"
                 ELSE IF obj.cell_similarity = "invalid_next_cell"
                        THEN "none"
                        ELSE IF is_translation_of(cell, obj.present_cell.cell)
                               THEN "translation"
                               ELSE "none"
         IN  IF cd > 0 /\ first = "translation"
               THEN IF direction_flag(obj.present_cell.cell) #
                         direction_flag(cell)
                      THEN "inverted_translation"
                      ELSE first
               ELSE first

\* what Mapping::fill_fe_values returns for the similarity it is given: the
\* same value, or none or invalid_next_cell when it could not reuse its data
MappingAnswers == {"same", "none", "invalid_next_cell"}

fill_fe_values_result(given, answer) ==
  IF answer = "same" THEN given ELSE answer

\* a do_reinit that drops the value the mapping returns
do_reinit_dropping_return(c, W, answer) ==
  LET given  == W.ctx[c].cell_similarity
      mapped == IF W.ctx[c].update_flags \cap update_mapping # {}
                  THEN fill_fe_values_result(given, answer)
                  ELSE given
      mcalls == IF W.ctx[c].update_flags \cap update_mapping # {}
                  THEN <<[fn |-> "mapping.fill_fe_values", sim |-> given],
                         [fn |-> "mapping.fill_fe_values returned",
                          sim |-> mapped]>>
                  ELSE <<>>
  IN  [W EXCEPT
         !.calls = @ \o mcalls \o
                   <<[fn |-> "fe.fill_fe_values", sim |-> given]>>]

\* FEValues::do_reinit: the call of the mapping with the similarity it is
\* given and its return with the similarity it answers, then the call of
\* the finite element
do_reinit(c, W, answer) ==
  LET given  == W.ctx[c].cell_similarity
      mapped == IF W.ctx[c].update_flags \cap update_mapping # {}
                  THEN fill_fe_values_result(given, answer)
                  ELSE given
      mcalls == IF W.ctx[c].update_flags \cap update_mapping # {}
                  THEN <<[fn |-> "mapping.fill_fe_values", sim |-> given],
                         [fn |-> "mapping.fill_fe_values returned",
                          sim |-> mapped]>>
                  ELSE <<>>
  IN  [W EXCEPT
         !.ctx[c].cell_similarity = mapped,
         !.calls = @ \o mcalls \o
                   <<[fn |-> "fe.fill_fe_values", sim |-> mapped]>>]

\* a cell reinit that sets present_cell before it classifies
FEValues_reinit_binding_first(c, W, cell, dof_handler, threads, cd, answer) ==
  LET W1 == maybe_invalidate_previous_present_cell(c, W, cell)
      W2 == [W1 EXCEPT
               !.ctx[c].present_cell =
                  CellIteratorContainer(cell, dof_handler),
               !.calls = @ \o <<[fn  |-> "present_cell",
                                 sim |-> W1.ctx[c].cell_similarity]>>]
      s  == check_cell_similarity(W2.ctx[c], cell, threads, cd)
      W3 == [W2 EXCEPT
               !.ctx[c].cell_similarity = s,
               !.calls = @ \o <<[fn |-> "check_cell_similarity", sim |-> s]>>]
  IN  do_reinit(c, W3, answer)

\* FEValues::reinit(cell), for an iterator into the triangulation
\* (dof_handler FALSE) and for an iterator into a DoFHandler
FEValues_reinit(c, W, cell, dof_handler, threads, cd, answer) ==
  LET W1 == maybe_invalidate_previous_present_cell(c, W, cell)
      s  == check_cell_similarity(W1.ctx[c], cell, threads, cd)
      W2 == [W1 EXCEPT
               !.ctx[c].cell_similarity = s,
               !.calls = @ \o <<[fn |-> "check_cell_similarity", sim |-> s]>>]
      W3 == [W2 EXCEPT
               !.ctx[c].present_cell =
                  CellIteratorContainer(cell, dof_handler),
               !.calls = @ \o <<[fn |-> "present_cell", sim |-> s]>>]
  IN  do_reinit(c, W3, answer)

\* FEFaceValues::do_reinit(face_no) and
\* FESubfaceValues::do_reinit(face_no, subface_no): the face fills of the
\* mapping return nothing, cell_similarity is left alone
do_reinit_face(c, W, fill) ==
  LET sim    == W.ctx[c].cell_similarity
      mcalls == IF W.ctx[c].update_flags \cap update_mapping # {}
                  THEN <<[fn |-> "mapping." \o fill, sim |-> sim]>>
                  ELSE <<>>
  IN  [W EXCEPT
         !.calls = @ \o mcalls \o <<[fn |-> "fe." \o fill, sim |-> sim]>>]

\* a face reinit that does not set present_cell
FEFaceValues_reinit_without_binding(c, W, cell, fill) ==
  do_reinit_face(c, maybe_invalidate_previous_present_cell(c, W, cell), fill)

\* FEFaceValues::reinit(cell, face_no) and
\* FESubfaceValues::reinit(cell, face_no, subface_no)
FEFaceValues_reinit(c, W, cell, fill) ==
  LET W1 == maybe_invalidate_previous_present_cell(c, W, cell)
      W2 == [W1 EXCEPT
               !.ctx[c].present_cell = CellIteratorContainer(cell, FALSE),
               !.calls = @ \o <<[fn  |-> "present_cell",
                                 sim |-> W1.ctx[c].cell_similarity]>>]
  IN  do_reinit_face(c, W2, fill)

\* a destructor that disconnects tria_listener_refinement only
Destructor_keeping_mesh_transform(c, W) ==
  [W EXCEPT
     !.slots = @ \ {W.ctx[c].tria_listener_refinement},
     !.ctx[c].tria_listener_refinement = NoConnection,
     !.ctx[c].alive = FALSE]

\* FEValuesBase::~FEValuesBase
Destructor(c, W) ==
  [disconnect_listeners(c, W) EXCEPT !.ctx[c].alive = FALSE]

\* a signal of a triangulation calls, in turn, every slot that is still
\* connected to it when its turn comes; pending is the sequence of slots
\* that were connected when the change was announced
RECURSIVE CallSlots(_, _)
CallSlots(W, pending) ==
  IF pending = <<>>
    THEN W
    ELSE LET slot == Head(pending)
         IN  IF slot \in W.slots
               THEN IF W.ctx[slot.c].alive
                      THEN CallSlots(invalidate_present_cell(slot.c, W),
                                     Tail(pending))
                      ELSE CallSlots(
                             [W EXCEPT !.failed = @ \cup {"destroyed"}],
                             Tail(pending))
               ELSE CallSlots(W, Tail(pending))

\* the slots of triangulation tria a change of kind event calls, in order
RECURSIVE SlotSeq(_, _, _)
SlotSeq(tria, sigs, cs) ==
  IF sigs = <<>>
    THEN <<>>
    ELSE IF cs = {}
           THEN SlotSeq(tria, Tail(sigs), Contexts)
           ELSE LET c == CHOOSE x \in cs : \A y \in cs : x <= y
                IN  <<[tria |-> tria, signal |-> Head(sigs), c |-> c]>> \o
                    SlotSeq(tria, sigs, cs \ {c})

Announce(W, tria, event) ==
  CallSlots(W, SlotSeq(tria, SignalsOf(event), Contexts))

-----------------------------------------------------------------------------
(* The finite element *)

\* numbers::invalid_unsigned_int, the sentinel of the row table: the largest
\* unsigned int, here the largest number the model checker represents
invalid_unsigned_int == 2147483647

\* a + b and a - b of unsigned int: modulo invalid_unsigned_int + 1
unsigned_sum(a, b) ==
  IF a <= invalid_unsigned_int - b THEN a + b
                                   ELSE a - (invalid_unsigned_int - b) - 1

unsigned_difference(a, b) ==
  IF a >= b THEN a - b ELSE invalid_unsigned_int - (b - a) + 1

\* A finite element as far as this file asks it: n_dofs_per_cell(),
\* n_components() and, for shape function i, get_nonzero_components(i), the
\* set of the components whose mask bit is set.  Shape functions and
\* components are numbered from 0, as in the code.
FiniteElement(masks, n_components) ==
  [ n_dofs_per_cell    |-> Len(masks),
    n_components       |-> n_components,
    nonzero_components |-> masks ]

get_nonzero_components(element, i) == element.nonzero_components[i + 1]

\* FiniteElement::n_nonzero_components(i): the number of set mask bits
n_nonzero_components(element, i) ==
  Cardinality(get_nonzero_components(element, i))

\* FiniteElement::is_primitive(i) and FiniteElement::is_primitive()
is_primitive_shape_function(element, i) ==
  n_nonzero_components(element, i) = 1

is_primitive(element) ==
  \A i \in 0..(element.n_dofs_per_cell - 1) :
    is_primitive_shape_function(element, i)

\* FiniteElement::system_to_component_index(i).first of a primitive shape
\* function: its one non-zero component
system_to_component_index(element, i) ==
  CHOOSE c \in get_nonzero_components(element, i) : TRUE

\* all elements with n shape functions and n_components components in which
\* every shape function has a non-zero component
Elements(n, n_components) ==
  { FiniteElement(masks, n_components) :
      masks \in [1..n -> (SUBSET (0..(n_components - 1))) \ {{}}] }

\* a scalar element with one shape function
FE_Q == FiniteElement(<<{0}>>, 1)

\* the row table that advances by one row per shape function
row_table_one_row_per_shape_function(element) ==
  LET n  == element.n_dofs_per_cell
      nc == element.n_components
  IN  [ k \in 0..(n * nc - 1) |->
          LET i == k \div nc
              c == k % nc
          IN  IF c \in get_nonzero_components(element, i)
                THEN i + Cardinality({b \in get_nonzero_components(element, i) :
                                        b < c})
                ELSE invalid_unsigned_int ]

\* internal::make_shape_function_to_row_table: entry i * n_components + c is
\* the row of component c of shape function i; row[i] is the value of the
\* variable row when the loop reaches shape function i, and the number of
\* set bits below c is the value of nth_nonzero_component at component c
make_shape_function_to_row_table(element) ==
  LET n  == element.n_dofs_per_cell
      nc == element.n_components
      row[i \in 0..n] ==
        IF i = 0 THEN 0
                 ELSE row[i - 1] + n_nonzero_components(element, i - 1)
  IN  [ k \in 0..(n * nc - 1) |->
          LET i == k \div nc
              c == k % nc
          IN  IF c \in get_nonzero_components(element, i)
                THEN row[i] +
                     Cardinality({b \in get_nonzero_components(element, i) :
                                    b < c})
                ELSE invalid_unsigned_int ]

\* the loop "n_nonzero_shape_components += fe.n_nonzero_components(i)"
RECURSIVE count_nonzero_shape_components(_, _)
count_nonzero_shape_components(element, n) ==
  IF n = 0
    THEN 0
    ELSE count_nonzero_shape_components(element, n - 1) +
         n_nonzero_components(element, n - 1)

NoOutput == [initialized |-> FALSE]

\* FiniteElementRelatedData::initialize: the row table, and a table of
\* n_nonzero_shape_components rows and n_quadrature_points columns for each
\* requested kind of data, every entry a signaling NaN until a reinit
\* fills it
initialize(n_quadrature_points, element, flags) ==
  LET rows == count_nonzero_shape_components(element,
                                             element.n_dofs_per_cell)
      table(flag) == IF flag \in flags
                       THEN [rows |-> rows, columns |-> n_quadrature_points]
                       ELSE [rows |-> 0, columns |-> 0]
  IN  [ initialized                 |-> TRUE,
        shape_function_to_row_table |->
          make_shape_function_to_row_table(element),
        failed                      |->
          IF rows >= element.n_dofs_per_cell THEN {}
                                             ELSE {"ExcInternalError"},
        shape_values                |-> table("update_values"),
        shape_gradients             |-> table("update_gradients"),
        shape_hessians              |-> table("update_hessians"),
        shape_3rd_derivatives       |-> table("update_3rd_derivatives"),
        filled                      |-> FALSE,
        seed                        |-> 0 ]

-----------------------------------------------------------------------------
(* FEValuesViews: the constructors *)

\* the test that takes a primitive shape function for non-zero in every
\* component of the element
is_nonzero_shape_function_component_of_any_primitive(element, i, component) ==
  IF is_primitive(element) \/ is_primitive_shape_function(element, i)
    THEN component < element.n_components
    ELSE component \in get_nonzero_components(element, i)

\* the test "is component non-zero for shape function i" of the four
\* constructors
is_nonzero_shape_function_component(element, i, component) ==
  IF is_primitive(element) \/ is_primitive_shape_function(element, i)
    THEN component = system_to_component_index(element, i)
    ELSE component \in get_nonzero_components(element, i)

\* the row_index the constructors store for (i, component)
row_index(element, table, i, component) ==
  IF is_nonzero_shape_function_component(element, i, component)
    THEN table[i * element.n_components + component]
    ELSE invalid_unsigned_int

\* the number of sub-components K of a view: spacedim for Vector,
\* (dim*dim + dim)/2 for SymmetricTensor, dim*dim for Tensor
n_independent_components(kind, d, spacedim) ==
  CASE kind = "Scalar"          -> 1
    [] kind = "Vector"          -> spacedim
    [] kind = "SymmetricTensor" -> (d * d + d) \div 2
    [] kind = "Tensor"          -> d * d

\* a classifier that takes the first flagged sub-component also when
\* several are flagged
classify_first_flagged(flags, rows, K) ==
  LET flagged == {d \in 0..(K - 1) : flags[d]}
  IN  IF flagged = {}
        THEN [single_nonzero_component       |-> -2,
              single_nonzero_component_index |-> "unset"]
        ELSE LET d == CHOOSE x \in flagged : \A y \in flagged : x <= y
             IN  [single_nonzero_component       |-> rows[d],
                  single_nonzero_component_index |-> d]

\* a classifier that stores the row of the one flagged sub-component but
\* leaves its position at 0
classify_without_position(flags, rows, K) ==
  LET flagged == {d \in 0..(K - 1) : flags[d]}
      n_nonzero == Cardinality(flagged)
  IN  IF n_nonzero = 0
        THEN [single_nonzero_component       |-> -2,
              single_nonzero_component_index |-> "unset"]
        ELSE IF n_nonzero > 1
               THEN [single_nonzero_component       |-> -1,
                     single_nonzero_component_index |-> "unset"]
               ELSE LET d == CHOOSE x \in flagged : \A y \in flagged : x <= y
                    IN  [single_nonzero_component       |-> rows[d],
                         single_nonzero_component_index |-> 0]

\* the second loop of the constructors of Vector, SymmetricTensor and
\* Tensor: -2 without flagged sub-component, -1 with several, else the row
\* of the first (and only) flagged one and its position d; in the first
\* two cases single_nonzero_component_index is not assigned
classify(flags, rows, K) ==
  LET flagged == {d \in 0..(K - 1) : flags[d]}
      n_nonzero == Cardinality(flagged)
  IN  IF n_nonzero = 0
        THEN [single_nonzero_component       |-> -2,
              single_nonzero_component_index |-> "unset"]
        ELSE IF n_nonzero > 1
               THEN [single_nonzero_component       |-> -1,
                     single_nonzero_component_index |-> "unset"]
               ELSE LET d == CHOOSE x \in flagged : \A y \in flagged : x <= y
                    IN  [single_nonzero_component       |-> rows[d],
                         single_nonzero_component_index |-> d]

\* ShapeFunctionData of shape function i in a view of K sub-components
\* starting at component first
ShapeFunctionData(element, table, i, first, K) ==
  LET component(d) == unsigned_sum(first, d)
      flags == [d \in 0..(K - 1) |->
                  is_nonzero_shape_function_component(element, i,
                                                      component(d))]
      rows  == [d \in 0..(K - 1) |->
                  row_index(element, table, i, component(d))]
      class == classify(flags, rows, K)
  IN  [ is_nonzero_shape_function_component |-> flags,
        row_index                           |-> rows,
        single_nonzero_component            |-> class.single_nonzero_component,
        single_nonzero_component_index      |->
          class.single_nonzero_component_index ]

\* a view whose constructor failed the range check of its first component
FailedView(kind, first, K) ==
  [kind |-> kind, first |-> first, K |-> K, failed |-> {"ExcIndexRange"},
   shape_function_data |-> <<>>]

\* FEValuesViews::Scalar::Scalar(fe_values, component)
Scalar(element, component) ==
  IF ~ (component < element.n_components)
    THEN FailedView("Scalar", component, 1)
    ELSE LET table == make_shape_function_to_row_table(element)
         IN  [ kind   |-> "Scalar",
               first  |-> component,
               K      |-> 1,
               failed |-> {},
               shape_function_data |->
                 [ i \in 0..(element.n_dofs_per_cell - 1) |->
                     [ is_nonzero_shape_function_component |->
                         is_nonzero_shape_function_component(element, i,
                                                             component),
                       row_index |->
                         row_index(element, table, i, component) ] ] ]

\* the assertion of ComponentMask::operator[] that get_nonzero_components(i)
\* [component] runs into for a component the element does not have; the
\* constructors ask the mask of the shape functions that are not primitive
ComponentMask_failed(element, first, K) ==
  IF \E i \in 0..(element.n_dofs_per_cell - 1), d \in 0..(K - 1) :
       /\ ~ (is_primitive(element) \/ is_primitive_shape_function(element, i))
       /\ ~ (unsigned_sum(first, d) < element.n_components)
    THEN {"ExcIndexRange"}
    ELSE {}

\* the constructors of the views with a window of K sub-components: the
\* assertion first + K - 1 < n_components in unsigned int, then the two
\* loops over the sub-components first + d
WindowView(kind, element, first, K) ==
  IF ~ (unsigned_difference(unsigned_sum(first, K), 1) < element.n_components)
    THEN FailedView(kind, first, K)
    ELSE LET table == make_shape_function_to_row_table(element)
         IN  [ kind   |-> kind,
               first  |-> first,
               K      |-> K,
               failed |-> ComponentMask_failed(element, first, K),
               shape_function_data |->
                 [ i \in 0..(element.n_dofs_per_cell - 1) |->
                     ShapeFunctionData(element, table, i, first, K) ] ]

\* FEValuesViews::Vector::Vector(fe_values, first_vector_component)
Vector(element, first_vector_component, spacedim) ==
  WindowView("Vector", element, first_vector_component,
             n_independent_components("Vector", spacedim, spacedim))

\* FEValuesViews::SymmetricTensor<2>::SymmetricTensor(fe_values,
\* first_tensor_component)
SymmetricTensor(element, first_tensor_component, d) ==
  WindowView("SymmetricTensor", element, first_tensor_component,
             n_independent_components("SymmetricTensor", d, d))

\* FEValuesViews::Tensor<2>::Tensor(fe_values, first_tensor_component)
Tensor(element, first_tensor_component, d) ==
  WindowView("Tensor", element, first_tensor_component,
             n_independent_components("Tensor", d, d))

\* internal::FEValuesViews::Cache::Cache(fe_values): the views of each
\* class for the components 0, 1, ... as many as the count computed from
\* spacedim says; a list is a function on 0..size-1
Cache(element, d, spacedim) ==
  LET n_scalars == element.n_components
      n_vectors ==
        IF element.n_components >=
             n_independent_components("Vector", spacedim, spacedim)
          THEN element.n_components -
                 n_independent_components("Vector", spacedim, spacedim) + 1
          ELSE 0
      n_symmetric_second_order_tensors ==
        IF element.n_components >=
             n_independent_components("SymmetricTensor", spacedim, spacedim)
          THEN element.n_components -
                 n_independent_components("SymmetricTensor", spacedim,
                                          spacedim) + 1
          ELSE 0
      n_second_order_tensors ==
        IF element.n_components >=
             n_independent_components("Tensor", spacedim, spacedim)
          THEN element.n_components -
                 n_independent_components("Tensor", spacedim, spacedim) + 1
          ELSE 0
  IN  [ kind    |-> "cache",
        scalars |-> [component \in 0..(n_scalars - 1) |->
                       Scalar(element, component)],
        vectors |-> [component \in 0..(n_vectors - 1) |->
                       Vector(element, component, spacedim)],
        symmetric_second_order_tensors |->
          [component \in 0..(n_symmetric_second_order_tensors - 1) |->
             SymmetricTensor(element, component, d)],
        second_order_tensors |->
          [component \in 0..(n_second_order_tensors - 1) |->
             Tensor(element, component, d)] ]

NoView == [kind |-> "none"]

NoResult == [op |-> "none"]

-----------------------------------------------------------------------------
(* FEValuesViews::internal: the accumulation kernels.
   Numbers are integers.  A vector or a table is a function on 0..size-1.
   A Tensor<rank, n> is the vector of its n^rank entries in unrolled order:
   the entry at (i1, ..., ir) has the index i1 * n^(r-1) + ... + ir, as in
   Tensor::unrolled_to_component_indices; a number is the tensor of rank 0
   with its one entry at index 0. *)

size(v) == Cardinality(DOMAIN v)

ZeroTensor(rank, n) == [k \in 0..(n ^ rank - 1) |-> 0]

number(x) == [k \in 0..0 |-> x]

\* t[i1]...[ip] += value * u for a tensor u of lower or equal rank; at is
\* the unrolled index of (i1, ..., ip), 0 when u has the rank of t
add_scaled(t, at, value, u) ==
  LET m == size(u)
  IN  [ k \in DOMAIN t |->
          IF k \div m = at THEN t[k] + value * u[k % m] ELSE t[k] ]

\* trace(Tensor<2, n>)
RECURSIVE trace_below(_, _, _)
trace_below(t, n, d) ==
  IF d = 0 THEN 0 ELSE trace_below(t, n, d - 1) + t[(d - 1) * n + (d - 1)]

trace(t, n) == trace_below(t, n, n)

\* Differentiation::AD::is_ad_number<Number>::value, for the number types
\* "double" and "ad_number" the kernels are instantiated for; a number of
\* either type is modelled by its value
is_ad_number(Number) == Number = "ad_number"

\* a test that also takes the negative coefficients for zero
CheckForZero_not_positive(Number, value) ==
  IF is_ad_number(Number) THEN FALSE ELSE value <= 0

\* internal::CheckForZero<Number>::value: the comparison with zero, and
\* false without looking at the value for an auto-differentiable type
CheckForZero(Number, value) ==
  IF is_ad_number(Number) THEN FALSE ELSE value = 0

\* a fill that writes the multiplicative identity in every entry
fill_with_ones(out, rank, n) ==
  [q \in DOMAIN out |-> [k \in 0..(n ^ rank - 1) |-> 1]]

\* std::fill(out.begin(), out.end(), T()) for T of the given rank
fill(out, rank, n) == [q \in DOMAIN out |-> ZeroTensor(rank, n)]

\* the kernels of a Scalar view loop over the shape functions and pass over
\* one that is zero in the component of the view or has a zero coefficient

\* do_function_values for a Scalar view
do_function_values_Scalar(Number, dof_values, shape_values, shape_function_data, values) ==
  LET dofs_per_cell == size(dof_values)
      acc[n \in 0..dofs_per_cell] ==
        IF n = 0
          THEN fill(values, 0, 1)
          ELSE LET data  == shape_function_data[n - 1]
                   value == dof_values[n - 1]
                   row   == data.row_index
                   out   == acc[n - 1]
               IN  IF ~ data.is_nonzero_shape_function_component
                     THEN out
                     ELSE IF CheckForZero(Number, value)
                            THEN out
                            ELSE [q_point \in DOMAIN out |->
                                 add_scaled(out[q_point], 0, value, shape_values[row][q_point])]
  IN  [failed |-> {}, out |-> acc[dofs_per_cell]]

\* do_function_derivatives<order> for a Scalar view
do_function_derivatives_Scalar(Number, dof_values, shape_derivatives, shape_function_data, derivatives, order, spacedim) ==
  LET dofs_per_cell == size(dof_values)
      acc[n \in 0..dofs_per_cell] ==
        IF n = 0
          THEN fill(derivatives, order, spacedim)
          ELSE LET data  == shape_function_data[n - 1]
                   value == dof_values[n - 1]
                   row   == data.row_index
                   out   == acc[n - 1]
               IN  IF ~ data.is_nonzero_shape_function_component
                     THEN out
                     ELSE IF CheckForZero(Number, value)
                            THEN out
                            ELSE [q_point \in DOMAIN out |->
                                 add_scaled(out[q_point], 0, value,
                                            shape_derivatives[row][q_point])]
  IN  [failed |-> {}, out |-> acc[dofs_per_cell]]

\* do_function_laplacians for a Scalar view
do_function_laplacians_Scalar(Number, dof_values, shape_hessians, shape_function_data, laplacians, spacedim) ==
  LET dofs_per_cell == size(dof_values)
      acc[n \in 0..dofs_per_cell] ==
        IF n = 0
          THEN fill(laplacians, 0, 1)
          ELSE LET data  == shape_function_data[n - 1]
                   value == dof_values[n - 1]
                   row   == data.row_index
                   out   == acc[n - 1]
               IN  IF ~ data.is_nonzero_shape_function_component
                     THEN out
                     ELSE IF CheckForZero(Number, value)
                            THEN out
                            ELSE [q_point \in DOMAIN out |->
                                 add_scaled(out[q_point], 0, value,
                                   number(trace(shape_hessians[row][q_point], spacedim)))]
  IN  [failed |-> {}, out |-> acc[dofs_per_cell]]

\* the kernels of Vector, SymmetricTensor and Tensor views loop over the
\* shape functions and pass over one whose classifier is -2 or whose
\* coefficient is zero; with a single non-zero sub-component (classifier a
\* row) the first branch runs, else the loop "for d < K: if
\* is_nonzero_shape_function_component[d]" over the sub-components

\* do_function_values for a Vector view
do_function_values_Vector(Number, dof_values, shape_values, shape_function_data, values, spacedim) ==
  LET dofs_per_cell == size(dof_values)
      acc[n \in 0..dofs_per_cell] ==
        IF n = 0
          THEN [failed |-> {}, out |-> fill(values, 1, spacedim)]
          ELSE LET data  == shape_function_data[n - 1]
                   snc   == data.single_nonzero_component
                   value == dof_values[n - 1]
                   out   == acc[n - 1].out
               IN  IF snc = -2
                     THEN acc[n - 1]
                     ELSE IF CheckForZero(Number, value)
                       THEN acc[n - 1]
                       ELSE IF snc # -1
                         THEN LET comp == data.single_nonzero_component_index
                              IN  [acc[n - 1] EXCEPT !.out =
                                    [q_point \in DOMAIN out |->
                                      add_scaled(out[q_point], comp, value,
                                                 shape_values[snc][q_point])]]
                         ELSE
                           LET several[k \in 0..(spacedim)] ==
                                 IF k = 0
                                   THEN out
                                   ELSE IF data.is_nonzero_shape_function_component[k - 1]
                                     THEN LET d    == k - 1
                                              done == several[k - 1]
                                          IN  [q_point \in DOMAIN out |->
                                                 add_scaled(done[q_point], d, value,
                                                            shape_values[data.row_index[d]][q_point])]
                                     ELSE several[k - 1]
                           IN  [acc[n - 1] EXCEPT !.out = several[spacedim]]
  IN  acc[dofs_per_cell]

\* do_function_derivatives<order> for a Vector view
do_function_derivatives_Vector(Number, dof_values, shape_derivatives, shape_function_data, derivatives, order, spacedim) ==
  LET dofs_per_cell == size(dof_values)
      acc[n \in 0..dofs_per_cell] ==
        IF n = 0
          THEN [failed |-> {}, out |-> fill(derivatives, order + 1, spacedim)]
          ELSE LET data  == shape_function_data[n - 1]
                   snc   == data.single_nonzero_component
                   value == dof_values[n - 1]
                   out   == acc[n - 1].out
               IN  IF snc = -2
                     THEN acc[n - 1]
                     ELSE IF CheckForZero(Number, value)
                       THEN acc[n - 1]
                       ELSE IF snc # -1
                         THEN LET comp == data.single_nonzero_component_index
                              IN  [acc[n - 1] EXCEPT !.out =
                                    [q_point \in DOMAIN out |->
                                      add_scaled(out[q_point], comp, value,
                                                 shape_derivatives[snc][q_point])]]
                         ELSE
                           LET several[k \in 0..(spacedim)] ==
                                 IF k = 0
                                   THEN out
                                   ELSE IF data.is_nonzero_shape_function_component[k - 1]
                                     THEN LET d    == k - 1
                                              done == several[k - 1]
                                          IN  [q_point \in DOMAIN out |->
                                                 add_scaled(done[q_point], d, value,
                                                            shape_derivatives[data.row_index[d]][q_point])]
                                     ELSE several[k - 1]
                           IN  [acc[n - 1] EXCEPT !.out = several[spacedim]]
  IN  acc[dofs_per_cell]

\* symmetrize_single_row(n, row): the symmetric tensor with row[n] at (n, n)
\* and row[d] / 2 at (n, d) and (d, n); exact for even entries
symmetrize_single_row(n, row, spacedim) ==
  [ k \in 0..(spacedim * spacedim - 1) |->
      LET i == k \div spacedim
          j == k % spacedim
      IN  IF i = n /\ j = n THEN row[n]
          ELSE IF i = n THEN row[j] \div 2
          ELSE IF j = n THEN row[i] \div 2
          ELSE 0 ]

\* symmetrize(t): (t + transpose(t)) / 2; exact for even entries
symmetrize(t, n) ==
  [ k \in DOMAIN t |-> (t[k] + t[(k % n) * n + k \div n]) \div 2 ]

\* grad[d] = row for a Tensor<2, spacedim> grad
set_row(grad, d, row, n) ==
  [ k \in DOMAIN grad |-> IF k \div n = d THEN row[k % n] ELSE grad[k] ]

\* do_function_symmetric_gradients for a Vector view
do_function_symmetric_gradients(Number, dof_values, shape_gradients, shape_function_data, symmetric_gradients, spacedim) ==
  LET dofs_per_cell == size(dof_values)
      acc[n \in 0..dofs_per_cell] ==
        IF n = 0
          THEN [failed |-> {}, out |-> fill(symmetric_gradients, 2, spacedim)]
          ELSE LET data  == shape_function_data[n - 1]
                   snc   == data.single_nonzero_component
                   value == dof_values[n - 1]
                   out   == acc[n - 1].out
               IN  IF snc = -2
                     THEN acc[n - 1]
                     ELSE IF CheckForZero(Number, value)
                       THEN acc[n - 1]
                       ELSE IF snc # -1
                         THEN LET comp == data.single_nonzero_component_index
                              IN  [acc[n - 1] EXCEPT !.out =
                                    [q_point \in DOMAIN out |->
                                      add_scaled(out[q_point], 0, value,
                                        symmetrize_single_row(comp, shape_gradients[snc][q_point],
                                                              spacedim))]]
                         ELSE
                           [acc[n - 1] EXCEPT !.out =
                              [q_point \in DOMAIN out |->
                                 LET grad[k \in 0..spacedim] ==
                                       IF k = 0
                                         THEN ZeroTensor(2, spacedim)
                                         ELSE IF data.is_nonzero_shape_function_component[k - 1]
                                           THEN set_row(grad[k - 1], k - 1,
                                                  [i \in 0..(spacedim - 1) |->
                                                     value *
                                                     shape_gradients[data.row_index[k - 1]][q_point][i]],
                                                  spacedim)
                                           ELSE grad[k - 1]
                                 IN  add_scaled(out[q_point], 0, 1,
                                                symmetrize(grad[spacedim], spacedim))]]
  IN  acc[dofs_per_cell]

\* do_function_divergences for a Vector view
do_function_divergences_Vector(Number, dof_values, shape_gradients, shape_function_data, divergences, spacedim) ==
  LET dofs_per_cell == size(dof_values)
      acc[n \in 0..dofs_per_cell] ==
        IF n = 0
          THEN [failed |-> {}, out |-> fill(divergences, 0, 1)]
          ELSE LET data  == shape_function_data[n - 1]
                   snc   == data.single_nonzero_component
                   value == dof_values[n - 1]
                   out   == acc[n - 1].out
               IN  IF snc = -2
                     THEN acc[n - 1]
                     ELSE IF CheckForZero(Number, value)
                       THEN acc[n - 1]
                       ELSE IF snc # -1
                         THEN LET comp == data.single_nonzero_component_index
                              IN  [acc[n - 1] EXCEPT !.out =
                                    [q_point \in DOMAIN out |->
                                      add_scaled(out[q_point], 0, value,
                                                 number(shape_gradients[snc][q_point][comp]))]]
                         ELSE
                           LET several[k \in 0..(spacedim)] ==
                                 IF k = 0
                                   THEN out
                                   ELSE IF data.is_nonzero_shape_function_component[k - 1]
                                     THEN LET d    == k - 1
                                              done == several[k - 1]
                                          IN  [q_point \in DOMAIN out |->
                                                 add_scaled(done[q_point], 0, value,
                                                   number(shape_gradients[data.row_index[d]][q_point][d]))]
                                     ELSE several[k - 1]
                           IN  [acc[n - 1] EXCEPT !.out = several[spacedim]]
  IN  acc[dofs_per_cell]

\* statements that add every gradient entry with the sign +1
curl_terms_without_signs(spacedim, component) ==
  IF spacedim = 2
    THEN IF component = 0
           THEN <<[to |-> 0, sign |-> 1, from |-> 1]>>
           ELSE <<[to |-> 0, sign |-> 1, from |-> 0]>>
    ELSE CASE component = 0 -> <<[to |-> 1, sign |-> 1, from |-> 2],
                                 [to |-> 2, sign |-> 1, from |-> 1]>>
           [] component = 1 -> <<[to |-> 0, sign |-> 1, from |-> 2],
                                 [to |-> 2, sign |-> 1, from |-> 0]>>
           [] component = 2 -> <<[to |-> 0, sign |-> 1, from |-> 1],
                                 [to |-> 1, sign |-> 1, from |-> 0]>>

\* the two statements of do_function_curls for spacedim 2 and the six for
\* spacedim 3, by the sub-component the gradient belongs to:
\* curls[q][to] += sign * value * gradient[from]
curl_terms(spacedim, component) ==
  IF spacedim = 2
    THEN IF component = 0
           THEN <<[to |-> 0, sign |-> -1, from |-> 1]>>
           ELSE <<[to |-> 0, sign |-> 1, from |-> 0]>>
    ELSE CASE component = 0 -> <<[to |-> 1, sign |-> 1, from |-> 2],
                                 [to |-> 2, sign |-> -1, from |-> 1]>>
           [] component = 1 -> <<[to |-> 0, sign |-> -1, from |-> 2],
                                 [to |-> 2, sign |-> 1, from |-> 0]>>
           [] component = 2 -> <<[to |-> 0, sign |-> 1, from |-> 1],
                                 [to |-> 1, sign |-> -1, from |-> 0]>>

\* the statements of one sub-component applied to curls[q_point]
RECURSIVE add_curl_terms(_, _, _, _)
add_curl_terms(curl, terms, value, gradient) ==
  IF terms = <<>>
    THEN curl
    ELSE add_curl_terms(
           add_scaled(curl, Head(terms).to, Head(terms).sign * value,
                      number(gradient[Head(terms).from])),
           Tail(terms), value, gradient)

\* internal::CurlType<spacedim>: one component in 1d and 2d, three in 3d
curl_components(spacedim) == IF spacedim = 3 THEN 3 ELSE 1

\* a curl kernel whose case for one space dimension has no assertion
do_function_curls_without_assertion(Number, dof_values, shape_gradients, shape_function_data, curls, spacedim) ==
  LET dofs_per_cell == size(dof_values)
      acc[n \in 0..dofs_per_cell] ==
        IF n = 0
          THEN [failed |-> {}, out |-> fill(curls, 1, curl_components(spacedim))]
          ELSE LET data  == shape_function_data[n - 1]
                   snc   == data.single_nonzero_component
                   value == dof_values[n - 1]
                   out   == acc[n - 1].out
               IN  IF snc = -2
                     THEN acc[n - 1]
                     ELSE IF CheckForZero(Number, value)
                       THEN acc[n - 1]
                       ELSE IF snc # -1
                         THEN LET comp == data.single_nonzero_component_index
                              IN  [acc[n - 1] EXCEPT !.out =
                                    [q_point \in DOMAIN out |->
                                      add_curl_terms(out[q_point], curl_terms(spacedim, comp),
                                                     value, shape_gradients[snc][q_point])]]
                         ELSE
                           LET several[k \in 0..(spacedim)] ==
                                 IF k = 0
                                   THEN out
                                   ELSE IF data.is_nonzero_shape_function_component[k - 1]
                                     THEN LET d    == k - 1
                                              done == several[k - 1]
                                          IN  [q_point \in DOMAIN out |->
                                                 add_curl_terms(done[q_point], curl_terms(spacedim, d), value,
                                                                shape_gradients[data.row_index[d]][q_point])]
                                     ELSE several[k - 1]
                           IN  [acc[n - 1] EXCEPT !.out = several[spacedim]]
  IN  IF spacedim = 1
        THEN acc[0]
        ELSE acc[dofs_per_cell]

\* do_function_curls for a Vector view
do_function_curls(Number, dof_values, shape_gradients, shape_function_data, curls, spacedim) ==
  LET dofs_per_cell == size(dof_values)
      acc[n \in 0..dofs_per_cell] ==
        IF n = 0
          THEN [failed |-> {}, out |-> fill(curls, 1, curl_components(spacedim))]
          ELSE LET data  == shape_function_data[n - 1]
                   snc   == data.single_nonzero_component
                   value == dof_values[n - 1]
                   out   == acc[n - 1].out
               IN  IF snc = -2
                     THEN acc[n - 1]
                     ELSE IF CheckForZero(Number, value)
                       THEN acc[n - 1]
                       ELSE IF snc # -1
                         THEN LET comp == data.single_nonzero_component_index
                              IN  [acc[n - 1] EXCEPT !.out =
                                    [q_point \in DOMAIN out |->
                                      add_curl_terms(out[q_point], curl_terms(spacedim, comp),
                                                     value, shape_gradients[snc][q_point])]]
                         ELSE
                           LET several[k \in 0..(spacedim)] ==
                                 IF k = 0
                                   THEN out
                                   ELSE IF data.is_nonzero_shape_function_component[k - 1]
                                     THEN LET d    == k - 1
                                              done == several[k - 1]
                                          IN  [q_point \in DOMAIN out |->
                                                 add_curl_terms(done[q_point], curl_terms(spacedim, d), value,
                                                                shape_gradients[data.row_index[d]][q_point])]
                                     ELSE several[k - 1]
                           IN  [acc[n - 1] EXCEPT !.out = several[spacedim]]
  IN  IF spacedim = 1
        THEN [failed |-> {"ExcMessage"}, out |-> acc[0].out]
        ELSE acc[dofs_per_cell]

\* a kernel that accumulates the first diagonal entry of each Hessian in
\* place of its trace
do_function_laplacians_Vector_first_diagonal(Number, dof_values, shape_hessians, shape_function_data, laplacians, spacedim) ==
  do_function_values_Vector(
    Number, dof_values,
    [row \in DOMAIN shape_hessians |->
       [q_point \in DOMAIN shape_hessians[row] |->
          number(shape_hessians[row][q_point][0])]],
    shape_function_data, laplacians, spacedim)

\* do_function_laplacians for a Vector view
do_function_laplacians_Vector(Number, dof_values, shape_hessians, shape_function_data, laplacians, spacedim) ==
  LET dofs_per_cell == size(dof_values)
      acc[n \in 0..dofs_per_cell] ==
        IF n = 0
          THEN [failed |-> {}, out |-> fill(laplacians, 1, spacedim)]
          ELSE LET data  == shape_function_data[n - 1]
                   snc   == data.single_nonzero_component
                   value == dof_values[n - 1]
                   out   == acc[n - 1].out
               IN  IF snc = -2
                     THEN acc[n - 1]
                     ELSE IF CheckForZero(Number, value)
                       THEN acc[n - 1]
                       ELSE IF snc # -1
                         THEN LET comp == data.single_nonzero_component_index
                              IN  [acc[n - 1] EXCEPT !.out =
                                    [q_point \in DOMAIN out |->
                                      add_scaled(out[q_point], comp, value,
                                        number(trace(shape_hessians[snc][q_point], spacedim)))]]
                         ELSE
                           LET several[k \in 0..(spacedim)] ==
                                 IF k = 0
                                   THEN out
                                   ELSE IF data.is_nonzero_shape_function_component[k - 1]
                                     THEN LET d    == k - 1
                                              done == several[k - 1]
                                          IN  [q_point \in DOMAIN out |->
                                                 add_scaled(done[q_point], d, value,
                                                   number(trace(shape_hessians[data.row_index[d]][q_point],
                                                                spacedim)))]
                                     ELSE several[k - 1]
                           IN  [acc[n - 1] EXCEPT !.out = several[spacedim]]
  IN  acc[dofs_per_cell]

\* SymmetricTensor<2, n>::unrolled_to_component_indices(i): the diagonal
\* first, then the entries above it row by row
symmetric_unrolled_to_component_indices(i, n) ==
  IF i < n
    THEN <<i, i>>
    ELSE LET above == IF n = 2 THEN <<(<<0, 1>>)>>
                      ELSE <<(<<0, 1>>), (<<0, 2>>), (<<1, 2>>)>>
         IN  above[i - n + 1]

\* Tensor<2, n>::unrolled_to_component_indices(i)
unrolled_to_component_indices(i, n) == <<i \div n, i % n>>

\* t[indices] += x for a symmetric tensor t, whose entries (i, j) and (j, i)
\* are one stored number
add_symmetric(t, indices, x, n) ==
  [ k \in DOMAIN t |->
      IF k = indices[1] * n + indices[2] \/ k = indices[2] * n + indices[1]
        THEN t[k] + x
        ELSE t[k] ]

\* the branch for several non-zero sub-components of the kernels that do
\* not implement it: Assert(false, ExcNotImplemented()) for every flagged
\* sub-component
not_implemented(acc, data, K) ==
  IF \E d \in 0..(K - 1) : data.is_nonzero_shape_function_component[d]
    THEN [acc EXCEPT !.failed = @ \cup {"ExcNotImplemented"}]
    ELSE acc

\* do_function_values for a SymmetricTensor view
do_function_values_SymmetricTensor(Number, dof_values, shape_values, shape_function_data, values, spacedim) ==
  LET dofs_per_cell == size(dof_values)
      acc[n \in 0..dofs_per_cell] ==
        IF n = 0
          THEN [failed |-> {}, out |-> fill(values, 2, spacedim)]
          ELSE LET data  == shape_function_data[n - 1]
                   snc   == data.single_nonzero_component
                   value == dof_values[n - 1]
                   out   == acc[n - 1].out
               IN  IF snc = -2
                     THEN acc[n - 1]
                     ELSE IF CheckForZero(Number, value)
                       THEN acc[n - 1]
                       ELSE IF snc # -1
                         THEN LET comp == data.single_nonzero_component_index
                                  indices ==
                                    symmetric_unrolled_to_component_indices(comp, spacedim)
                              IN  [acc[n - 1] EXCEPT !.out =
                                    [q_point \in DOMAIN out |->
                                      add_symmetric(out[q_point], indices,
                                                    value * shape_values[snc][q_point][0],
                                                    spacedim)]]
                         ELSE
                           LET several[k \in 0..((spacedim * spacedim + spacedim) \div 2)] ==
                                 IF k = 0
                                   THEN out
                                   ELSE IF data.is_nonzero_shape_function_component[k - 1]
                                     THEN LET d    == k - 1
                                              done == several[k - 1]
                                          IN  [q_point \in DOMAIN out |->
                                                 add_symmetric(
                                                   done[q_point],
                                                   symmetric_unrolled_to_component_indices(d, spacedim),
                                                   value * shape_values[data.row_index[d]][q_point][0],
                                                   spacedim)]
                                     ELSE several[k - 1]
                           IN  [acc[n - 1] EXCEPT !.out = several[(spacedim * spacedim + spacedim) \div 2]]
  IN  acc[dofs_per_cell]

\* do_function_divergences for a SymmetricTensor view
do_function_divergences_SymmetricTensor(Number, dof_values, shape_gradients, shape_function_data, divergences, spacedim) ==
  LET dofs_per_cell == size(dof_values)
      acc[n \in 0..dofs_per_cell] ==
        IF n = 0
          THEN [failed |-> {}, out |-> fill(divergences, 1, spacedim)]
          ELSE LET data  == shape_function_data[n - 1]
                   snc   == data.single_nonzero_component
                   value == dof_values[n - 1]
                   out   == acc[n - 1].out
               IN  IF snc = -2
                     THEN acc[n - 1]
                     ELSE IF CheckForZero(Number, value)
                       THEN acc[n - 1]
                       ELSE IF snc # -1
                         THEN LET comp == data.single_nonzero_component_index
                                  indices ==
                                    symmetric_unrolled_to_component_indices(comp, spacedim)
                                  ii == indices[1]
                                  jj == indices[2]
                              IN  [acc[n - 1] EXCEPT !.out =
                                    [q_point \in DOMAIN out |->
                                      LET gradient == shape_gradients[snc][q_point]
                                          first    == add_scaled(out[q_point], ii, value,
                                                                 number(gradient[jj]))
                                      IN  IF ii # jj
                                            THEN add_scaled(first, jj, value,
                                                            number(gradient[ii]))
                                            ELSE first]]
                         ELSE
                           not_implemented(acc[n - 1], data, (spacedim * spacedim + spacedim) \div 2)
  IN  acc[dofs_per_cell]

\* do_function_values for a Tensor view
do_function_values_Tensor(Number, dof_values, shape_values, shape_function_data, values, d_, spacedim) ==
  LET dofs_per_cell == size(dof_values)
      acc[n \in 0..dofs_per_cell] ==
        IF n = 0
          THEN [failed |-> {}, out |-> fill(values, 2, spacedim)]
          ELSE LET data  == shape_function_data[n - 1]
                   snc   == data.single_nonzero_component
                   value == dof_values[n - 1]
                   out   == acc[n - 1].out
               IN  IF snc = -2
                     THEN acc[n - 1]
                     ELSE IF CheckForZero(Number, value)
                       THEN acc[n - 1]
                       ELSE IF snc # -1
                         THEN LET comp == data.single_nonzero_component_index
                                  indices == unrolled_to_component_indices(comp, spacedim)
                              IN  [acc[n - 1] EXCEPT !.out =
                                    [q_point \in DOMAIN out |->
                                      add_scaled(out[q_point],
                                                 indices[1] * spacedim + indices[2], value,
                                                 shape_values[snc][q_point])]]
                         ELSE
                           LET several[k \in 0..(d_ * d_)] ==
                                 IF k = 0
                                   THEN out
                                   ELSE IF data.is_nonzero_shape_function_component[k - 1]
                                     THEN LET d    == k - 1
                                              done == several[k - 1]
                                          IN  [q_point \in DOMAIN out |->
                                                 LET indices == unrolled_to_component_indices(d, spacedim)
                                                 IN  add_scaled(done[q_point],
                                                                indices[1] * spacedim + indices[2], value,
                                                                shape_values[data.row_index[d]][q_point])]
                                     ELSE several[k - 1]
                           IN  [acc[n - 1] EXCEPT !.out = several[d_ * d_]]
  IN  acc[dofs_per_cell]

\* do_function_divergences for a Tensor view
do_function_divergences_Tensor(Number, dof_values, shape_gradients, shape_function_data, divergences, d_, spacedim) ==
  LET dofs_per_cell == size(dof_values)
      acc[n \in 0..dofs_per_cell] ==
        IF n = 0
          THEN [failed |-> {}, out |-> fill(divergences, 1, spacedim)]
          ELSE LET data  == shape_function_data[n - 1]
                   snc   == data.single_nonzero_component
                   value == dof_values[n - 1]
                   out   == acc[n - 1].out
               IN  IF snc = -2
                     THEN acc[n - 1]
                     ELSE IF CheckForZero(Number, value)
                       THEN acc[n - 1]
                       ELSE IF snc # -1
                         THEN LET comp == data.single_nonzero_component_index
                                  indices == unrolled_to_component_indices(comp, spacedim)
                                  ii == indices[1]
                                  jj == indices[2]
                              IN  [acc[n - 1] EXCEPT !.out =
                                    [q_point \in DOMAIN out |->
                                      add_scaled(out[q_point], ii, value,
                                                 number(shape_gradients[snc][q_point][jj]))]]
                         ELSE
                           not_implemented(acc[n - 1], data, d_ * d_)
  IN  acc[dofs_per_cell]

\* do_function_gradients for a Tensor view
do_function_gradients_Tensor(Number, dof_values, shape_gradients, shape_function_data, gradients, d_, spacedim) ==
  LET dofs_per_cell == size(dof_values)
      acc[n \in 0..dofs_per_cell] ==
        IF n = 0
          THEN [failed |-> {}, out |-> fill(gradients, 3, spacedim)]
          ELSE LET data  == shape_function_data[n - 1]
                   snc   == data.single_nonzero_component
                   value == dof_values[n - 1]
                   out   == acc[n - 1].out
               IN  IF snc = -2
                     THEN acc[n - 1]
                     ELSE IF CheckForZero(Number, value)
                       THEN acc[n - 1]
                       ELSE IF snc # -1
                         THEN LET comp == data.single_nonzero_component_index
                                  indices == unrolled_to_component_indices(comp, spacedim)
                              IN  [acc[n - 1] EXCEPT !.out =
                                    [q_point \in DOMAIN out |->
                                      add_scaled(out[q_point],
                                                 indices[1] * spacedim + indices[2], value,
                                                 shape_gradients[snc][q_point])]]
                         ELSE
                           not_implemented(acc[n - 1], data, d_ * d_)
  IN  acc[dofs_per_cell]

-----------------------------------------------------------------------------
(* The shape data a reinit leaves in finite_element_output, and the
   dispatch of the accessors of the views to the kernels *)

\* the entry at unrolled index k of the table of the derivatives of the
\* given order (0: the values) for a row and a quadrature point, as
\* FiniteElement::fill_fe_values computed it: a number from -2..2 that
\* depends on all of seed, order, row, point and index; the entries of the
\* gradients are doubled so that halving them in symmetrize is exact
shape_entry(seed, order, row, q_point, k) ==
  LET e == ((seed + 3 * row + 4 * q_point + 2 * order + k + k \div 3) % 5) - 2
  IN  IF order = 1 THEN 2 * e ELSE e

\* FiniteElement::fill_fe_values on an initialized finite_element_output
fill_fe_values(output, seed) ==
  [output EXCEPT !.filled = TRUE, !.seed = seed]

\* the table of the derivatives of the given order of a filled output
shape_table(output, order, n_quadrature_points, spacedim) ==
  LET rows == Cardinality({k \in DOMAIN output.shape_function_to_row_table :
                output.shape_function_to_row_table[k] # invalid_unsigned_int})
  IN  [ row \in 0..(rows - 1) |->
          [ q_point \in 0..(n_quadrature_points - 1) |->
              [ k \in 0..(spacedim ^ order - 1) |->
                  shape_entry(output.seed, order, row, q_point, k) ] ] ]

\* the kernels of each class of view, by the name of the accessor
\* get_function_<name> that calls them
Kernels(kind) ==
  CASE kind = "Scalar" ->
         {"values", "gradients", "hessians", "laplacians",
          "third_derivatives"}
    [] kind = "Vector" ->
         {"values", "gradients", "symmetric_gradients", "divergences",
          "curls", "hessians", "laplacians", "third_derivatives"}
    [] kind = "SymmetricTensor" -> {"values", "divergences"}
    [] kind = "Tensor" -> {"values", "divergences", "gradients"}
    [] OTHER -> {}

\* the four tables of a filled output, by the order of the derivative
shape_tables(output, n_quadrature_points, spacedim) ==
  [ order \in 0..3 |->
      shape_table(output, order, n_quadrature_points, spacedim) ]

\* get_function_<name>_from_local_dof_values of view v: the kernel it
\* calls, on the table it hands to it
apply_kernel(v, name, Number, dof_values, tables, out, d_, spacedim) ==
  LET table(k)  == tables[k]
      data      == v.shape_function_data
  IN  CASE v.kind = "Scalar" /\ name = "values" ->
             do_function_values_Scalar(Number, dof_values, table(0), data, out)
        [] v.kind = "Scalar" /\ name = "gradients" ->
             do_function_derivatives_Scalar(Number, dof_values, table(1), data, out,
                                            1, spacedim)
        [] v.kind = "Scalar" /\ name = "hessians" ->
             do_function_derivatives_Scalar(Number, dof_values, table(2), data, out,
                                            2, spacedim)
        [] v.kind = "Scalar" /\ name = "third_derivatives" ->
             do_function_derivatives_Scalar(Number, dof_values, table(3), data, out,
                                            3, spacedim)
        [] v.kind = "Scalar" /\ name = "laplacians" ->
             do_function_laplacians_Scalar(Number, dof_values, table(2), data, out,
                                           spacedim)
        [] v.kind = "Vector" /\ name = "values" ->
             do_function_values_Vector(Number, dof_values, table(0), data, out,
                                       spacedim)
        [] v.kind = "Vector" /\ name = "gradients" ->
             do_function_derivatives_Vector(Number, dof_values, table(1), data, out,
                                            1, spacedim)
        [] v.kind = "Vector" /\ name = "symmetric_gradients" ->
             do_function_symmetric_gradients(Number, dof_values, table(1), data, out,
                                             spacedim)
        [] v.kind = "Vector" /\ name = "divergences" ->
             do_function_divergences_Vector(Number, dof_values, table(1), data, out,
                                            spacedim)
        [] v.kind = "Vector" /\ name = "curls" ->
             do_function_curls(Number, dof_values, table(1), data, out, spacedim)
        [] v.kind = "Vector" /\ name = "hessians" ->
             do_function_derivatives_Vector(Number, dof_values, table(2), data, out,
                                            2, spacedim)
        [] v.kind = "Vector" /\ name = "laplacians" ->
             do_function_laplacians_Vector(Number, dof_values, table(2), data, out,
                                           spacedim)
        [] v.kind = "Vector" /\ name = "third_derivatives" ->
             do_function_derivatives_Vector(Number, dof_values, table(3), data, out,
                                            3, spacedim)
        [] v.kind = "SymmetricTensor" /\ name = "values" ->
             do_function_values_SymmetricTensor(Number, dof_values, table(0), data,
                                                out, spacedim)
        [] v.kind = "SymmetricTensor" /\ name = "divergences" ->
             do_function_divergences_SymmetricTensor(Number, dof_values, table(1),
                                                     data, out, spacedim)
        [] v.kind = "Tensor" /\ name = "values" ->
             do_function_values_Tensor(Number, dof_values, table(0), data, out,
                                       d_, spacedim)
        [] v.kind = "Tensor" /\ name = "divergences" ->
             do_function_divergences_Tensor(Number, dof_values, table(1), data, out,
                                            d_, spacedim)
        [] v.kind = "Tensor" /\ name = "gradients" ->
             do_function_gradients_Tensor(Number, dof_values, table(1), data, out,
                                          d_, spacedim)

-----------------------------------------------------------------------------
(* namespace internal: the kernels of the accessors of FEValuesBase for
   elements with several components.  An output array is a function on
   0..size-1 of functions on 0..size-1: values[point][component], or
   values[component][point] with quadrature_points_fastest.  The arrays
   behind dof_values_ptr and shape_function_to_row_table are handed in as
   the memory holds them: the entries of the array followed by the words
   that lie behind it, which the kernels read without a check; a row that
   the table of shape data does not have fails the assertion of Table. *)

\* the additive identity of the type of an entry of an output array
zero_like(entry) == [k \in DOMAIN entry |-> 0]

\* internal::do_function_values for an element with several components
internal_do_function_values(Number, dof_values_ptr, shape_values, element, shape_function_to_row_table, values, quadrature_points_fastest, component_multiple) ==
  LET dofs_per_cell       == element.n_dofs_per_cell
      n_quadrature_points == IF quadrature_points_fastest
                               THEN size(values[0]) ELSE size(values)
      n_components        == element.n_components
      result_components   == n_components * component_multiple
      filled == [i \in DOMAIN values |->
                   [j \in DOMAIN values[i] |-> zero_like(values[i][j])]]
      sizes_asserted ==
        IF quadrature_points_fastest
          THEN /\ size(values) = result_components
               /\ \A i \in DOMAIN values : size(values[i]) = n_quadrature_points
          ELSE /\ size(values) = n_quadrature_points
               /\ \A i \in DOMAIN values : size(values[i]) = result_components
      add(acc, comp, row, value) ==
        IF row \notin DOMAIN shape_values
          THEN [acc EXCEPT !.failed = @ \cup {"ExcIndexRange"}]
          ELSE [acc EXCEPT !.out =
                 IF quadrature_points_fastest
                   THEN [@ EXCEPT ![comp] =
                          [point \in DOMAIN @ |->
                             add_scaled(@[point], 0, value, shape_values[row][point])]]
                   ELSE [point \in DOMAIN @ |->
                          [@[point] EXCEPT ![comp] =
                             add_scaled(@, 0, value, shape_values[row][point])]]]
      nonprimitive(acc, shape_func, mc, value) ==
        LET several[k \in 0..n_components] ==
              IF k = 0 THEN acc
              ELSE IF several[k - 1].failed # {} THEN several[k - 1]
              ELSE LET c == k - 1
                   IN  IF c \notin get_nonzero_components(element, shape_func)
                         THEN several[k - 1]
                         ELSE add(several[k - 1], c + mc * n_components,
                                  shape_function_to_row_table[
                                    shape_func * n_components + c],
                                  value)
        IN  several[n_components]
      loop[k \in 0..(component_multiple * dofs_per_cell)] ==
        IF k = 0 THEN [failed |-> {}, out |-> filled]
        ELSE IF loop[k - 1].failed # {} THEN loop[k - 1]
        ELSE
          LET mc         == (k - 1) \div dofs_per_cell
              shape_func == (k - 1) % dofs_per_cell
              value      == dof_values_ptr[shape_func + mc * dofs_per_cell]
          IN  IF CheckForZero(Number, value)
                THEN loop[k - 1]
                ELSE IF is_primitive_shape_function(element, shape_func)
                  THEN LET comp == system_to_component_index(element,
                                                             shape_func) +
                                   mc * n_components
                           row  == shape_function_to_row_table[
                                     shape_func * n_components + comp]
                       IN  add(loop[k - 1], comp, row, value)
                  ELSE nonprimitive(loop[k - 1], shape_func, mc, value)
  IN  IF dofs_per_cell = 0
        THEN [failed |-> {}, out |-> filled]
        ELSE IF ~ sizes_asserted
          THEN [failed |-> {"ExcDimensionMismatch"}, out |-> filled]
          ELSE loop[component_multiple * dofs_per_cell]

\* internal::do_function_derivatives<order> for an element with several
\* components
internal_do_function_derivatives(Number, dof_values_ptr, shape_derivatives, element, shape_function_to_row_table, derivatives, quadrature_points_fastest, component_multiple) ==
  LET dofs_per_cell       == element.n_dofs_per_cell
      n_quadrature_points == IF quadrature_points_fastest
                               THEN size(derivatives[0]) ELSE size(derivatives)
      n_components        == element.n_components
      result_components   == n_components * component_multiple
      filled == [i \in DOMAIN derivatives |->
                   [j \in DOMAIN derivatives[i] |-> zero_like(derivatives[i][j])]]
      sizes_asserted ==
        IF quadrature_points_fastest
          THEN /\ size(derivatives) = result_components
               /\ \A i \in DOMAIN derivatives : size(derivatives[i]) = n_quadrature_points
          ELSE /\ size(derivatives) = n_quadrature_points
               /\ \A i \in DOMAIN derivatives : size(derivatives[i]) = result_components
      add(acc, comp, row, value) ==
        IF row \notin DOMAIN shape_derivatives
          THEN [acc EXCEPT !.failed = @ \cup {"ExcIndexRange"}]
          ELSE [acc EXCEPT !.out =
                 IF quadrature_points_fastest
                   THEN [@ EXCEPT ![comp] =
                          [point \in DOMAIN @ |->
                             add_scaled(@[point], 0, value, shape_derivatives[row][point])]]
                   ELSE [point \in DOMAIN @ |->
                          [@[point] EXCEPT ![comp] =
                             add_scaled(@, 0, value, shape_derivatives[row][point])]]]
      nonprimitive(acc, shape_func, mc, value) ==
        LET several[k \in 0..n_components] ==
              IF k = 0 THEN acc
              ELSE IF several[k - 1].failed # {} THEN several[k - 1]
              ELSE LET c == k - 1
                   IN  IF c \notin get_nonzero_components(element, shape_func)
                         THEN several[k - 1]
                         ELSE add(several[k - 1], c + mc * n_components,
                                  shape_function_to_row_table[
                                    shape_func * n_components + c],
                                  value)
        IN  several[n_components]
      loop[k \in 0..(component_multiple * dofs_per_cell)] ==
        IF k = 0 THEN [failed |-> {}, out |-> filled]
        ELSE IF loop[k - 1].failed # {} THEN loop[k - 1]
        ELSE
          LET mc         == (k - 1) \div dofs_per_cell
              shape_func == (k - 1) % dofs_per_cell
              value      == dof_values_ptr[shape_func + mc * dofs_per_cell]
          IN  IF CheckForZero(Number, value)
                THEN loop[k - 1]
                ELSE IF is_primitive_shape_function(element, shape_func)
                  THEN LET comp == system_to_component_index(element,
                                                             shape_func) +
                                   mc * n_components
                           row  == shape_function_to_row_table[
                                     shape_func * n_components + comp]
                       IN  add(loop[k - 1], comp, row, value)
                  ELSE nonprimitive(loop[k - 1], shape_func, mc, value)
  IN  IF dofs_per_cell = 0
        THEN [failed |-> {}, out |-> filled]
        ELSE IF ~ sizes_asserted
          THEN [failed |-> {"ExcDimensionMismatch"}, out |-> filled]
          ELSE loop[component_multiple * dofs_per_cell]

\* internal::get_vector_element(vector, cell_number)
get_vector_element(fe_function, cell_number) == fe_function[cell_number]

\* the entries of an array as the memory holds them: followed by the given
\* number of words that lie behind the array, each holding the given word
as_stored(array, behind, word) ==
  [k \in 0..(size(array) + behind - 1) |->
     IF k < size(array) THEN array[k] ELSE word]

\* the two assertions of the accessors that take an index array, in the
\* order the accessor makes them
indices_preconditions(update_flags, flag, indices, dofs_per_cell, multiple_first) ==
  LET not_multiple == size(indices) % dofs_per_cell # 0
      no_flag      == flag \notin update_flags
  IN  IF multiple_first
        THEN IF not_multiple THEN {"ExcNotMultiple"}
             ELSE IF no_flag THEN {"ExcAccessToUninitializedField"} ELSE {}
        ELSE IF no_flag THEN {"ExcAccessToUninitializedField"}
             ELSE IF not_multiple THEN {"ExcNotMultiple"} ELSE {}

\* FEValuesBase::get_function_values(fe_function, indices,
\* std::vector<Vector<Number>> &values): dof_values has dofs_per_cell
\* entries, the kernel reads indices.size() of them
get_function_values_indices_Vectors(Number, update_flags, element, output, tables, fe_function, indices, values, memory) ==
  LET dofs_per_cell == element.n_dofs_per_cell
      failed == indices_preconditions(update_flags, "update_values",
                                      indices, dofs_per_cell, TRUE)
      dof_values == [i \in 0..(dofs_per_cell - 1) |->
                       get_vector_element(fe_function, indices[i])]
      component_multiple == size(indices) \div dofs_per_cell
      computed == internal_do_function_values(
             Number,
             as_stored(dof_values, size(indices) - dofs_per_cell,
                       memory.dof_value),
             tables[0], element,
             as_stored(output.shape_function_to_row_table,
                       (component_multiple - 1) * element.n_components,
                       memory.row),
             values, FALSE, component_multiple)
  IN  IF failed # {}
        THEN [failed |-> failed, out |-> values, dof_values |-> <<>>]
        ELSE [failed     |-> computed.failed,
              out        |-> computed.out,
              dof_values |-> dof_values]

\* FEValuesBase::get_function_values(fe_function, indices,
\* ArrayView<std::vector<Number>> values, quadrature_points_fastest)
get_function_values_indices(Number, update_flags, element, output, tables, fe_function, indices, values, quadrature_points_fastest, memory) ==
  LET dofs_per_cell == element.n_dofs_per_cell
      failed == indices_preconditions(update_flags, "update_values",
                                      indices, dofs_per_cell, FALSE)
      dof_values == [i \in 0..(size(indices) - 1) |->
                       get_vector_element(fe_function, indices[i])]
      component_multiple == size(indices) \div dofs_per_cell
      computed == internal_do_function_values(
             Number, dof_values, tables[0], element,
             as_stored(output.shape_function_to_row_table,
                       (component_multiple - 1) * element.n_components,
                       memory.row),
             values, quadrature_points_fastest, component_multiple)
  IN  IF failed # {}
        THEN [failed |-> failed, out |-> values, dof_values |-> <<>>]
        ELSE [failed     |-> computed.failed,
              out        |-> computed.out,
              dof_values |-> dof_values]

\* FEValuesBase::get_function_gradients, get_function_hessians and
\* get_function_third_derivatives(fe_function, indices, ArrayView<...>,
\* quadrature_points_fastest): the same body on the table of the
\* derivatives of order 1, 2 and 3
get_function_derivatives_indices(Number, update_flags, flag, multiple_first, order, element, output, tables, fe_function, indices, derivatives, quadrature_points_fastest, memory) ==
  LET dofs_per_cell == element.n_dofs_per_cell
      failed == indices_preconditions(update_flags, flag, indices,
                                      dofs_per_cell, multiple_first)
      dof_values == [i \in 0..(size(indices) - 1) |->
                       get_vector_element(fe_function, indices[i])]
      component_multiple == size(indices) \div dofs_per_cell
      computed == internal_do_function_derivatives(
             Number, dof_values, tables[order], element,
             as_stored(output.shape_function_to_row_table,
                       (component_multiple - 1) * element.n_components,
                       memory.row),
             derivatives, quadrature_points_fastest, component_multiple)
  IN  IF failed # {}
        THEN [failed |-> failed, out |-> derivatives, dof_values |-> <<>>]
        ELSE [failed     |-> computed.failed,
              out        |-> computed.out,
              dof_values |-> dof_values]

get_function_gradients_indices(Number, update_flags, element, output, tables, fe_function, indices, gradients, quadrature_points_fastest, memory) ==
  get_function_derivatives_indices(Number, update_flags, "update_gradients",
    TRUE, 1, element, output, tables, fe_function, indices, gradients,
    quadrature_points_fastest, memory)

get_function_hessians_indices(Number, update_flags, element, output, tables, fe_function, indices, hessians, quadrature_points_fastest, memory) ==
  get_function_derivatives_indices(Number, update_flags, "update_hessians",
    FALSE, 2, element, output, tables, fe_function, indices, hessians,
    quadrature_points_fastest, memory)

get_function_third_derivatives_indices(Number, update_flags, element, output, tables, fe_function, indices, third_derivatives, quadrature_points_fastest, memory) ==
  get_function_derivatives_indices(Number, update_flags,
    "update_3rd_derivatives", FALSE, 3, element, output, tables, fe_function,
    indices, third_derivatives, quadrature_points_fastest, memory)

-----------------------------------------------------------------------------
(* The lifecycle specification: construction, reinit, mesh changes,
   explicit invalidation, destruction *)

\* the contexts whose present cell is a cell of triangulation tria
BoundTo(cs, tria) ==
  {c \in Contexts : /\ cs[c].present_cell.initialized
                    /\ get_triangulation(cs[c].present_cell.cell) = tria}

\* the record of an operation: what was called with which arguments, the
\* present cell and similarity of the context (or the contexts bound to the
\* triangulation) when it was called, the assertions it failed and the
\* calls it made
Last(op, c, cell, tria, event, W) ==
  [ op                |-> op,
    c                 |-> c,
    cell              |-> cell,
    tria              |-> tria,
    event             |-> event,
    cell_before       |-> IF c \in Contexts THEN ctx[c].present_cell
                                            ELSE NoCell,
    similarity_before |-> IF c \in Contexts THEN ctx[c].cell_similarity
                                            ELSE "none",
    bound_before      |-> BoundTo(ctx, tria),
    failed            |-> W.failed,
    calls             |-> W.calls ]

NoOperation ==
  [ op |-> "constructor", c |-> 0, cell |-> 0, tria |-> 0, event |-> "none",
    cell_before |-> NoCell, similarity_before |-> "none",
    bound_before |-> {}, failed |-> {}, calls |-> <<>> ]

Init ==
  /\ ctx \in [Contexts ->
               {FEValuesBase(k, f) :
                  k \in Kinds, f \in {{}, {"update_JxW_values"}}}]
  /\ slots = {}
  /\ n_threads \in 1..MaxThreads
  /\ codim \in {0, 1, 2}
  /\ last = NoOperation
  /\ dim = 1
  /\ fe = FE_Q
  /\ finite_element_output = NoOutput
  /\ view = NoView
  /\ result = NoResult

\* FEValues::reinit(cell) on context c, the mapping answering as chosen
ReinitCell(c, cell, dof_handler, answer) ==
  /\ ctx[c].alive
  /\ ctx[c].kind = "FEValues"
  /\ LET W == FEValues_reinit(c, World(ctx, slots), cell, dof_handler,
                              n_threads, codim, answer)
     IN  /\ ctx' = W.ctx
         /\ slots' = W.slots
         /\ last' = Last("reinit", c, cell, get_triangulation(cell), "none", W)
  /\ UNCHANGED <<n_threads, codim>>
  /\ UNCHANGED element_vars

\* FEFaceValues::reinit(cell, face_no) on context c
ReinitFace(c, cell) ==
  /\ ctx[c].alive
  /\ ctx[c].kind = "FEFaceValues"
  /\ LET W == FEFaceValues_reinit(c, World(ctx, slots), cell,
                                  "fill_fe_face_values")
     IN  /\ ctx' = W.ctx
         /\ slots' = W.slots
         /\ last' = Last("reinit", c, cell, get_triangulation(cell), "none", W)
  /\ UNCHANGED <<n_threads, codim>>
  /\ UNCHANGED element_vars

\* FESubfaceValues::reinit(cell, face_no, subface_no) on context c
ReinitSubface(c, cell) ==
  /\ ctx[c].alive
  /\ ctx[c].kind = "FESubfaceValues"
  /\ LET W == FEFaceValues_reinit(c, World(ctx, slots), cell,
                                  "fill_fe_subface_values")
     IN  /\ ctx' = W.ctx
         /\ slots' = W.slots
         /\ last' = Last("reinit", c, cell, get_triangulation(cell), "none", W)
  /\ UNCHANGED <<n_threads, codim>>
  /\ UNCHANGED element_vars

\* a triangulation announces a change to its subscribers
MeshChange(tria, event) ==
  /\ LET W == Announce(World(ctx, slots), tria, event)
     IN  /\ ctx' = W.ctx
         /\ slots' = W.slots
         /\ last' = Last("announce", 0, 0, tria, event, W)
  /\ UNCHANGED <<n_threads, codim>>
  /\ UNCHANGED element_vars

\* invalidate_present_cell() called directly on a context with a present cell
Invalidate(c) ==
  /\ ctx[c].alive
  /\ ctx[c].present_cell.initialized
  /\ LET W == invalidate_present_cell(c, World(ctx, slots))
     IN  /\ ctx' = W.ctx
         /\ slots' = W.slots
         /\ last' = Last("invalidate", c, 0, 0, "none", W)
  /\ UNCHANGED <<n_threads, codim>>
  /\ UNCHANGED element_vars

\* MultithreadInfo::set_thread_limit: the process-wide number of worker
\* threads changes between two operations on the contexts
SetThreadLimit(n) ==
  /\ n # n_threads
  /\ n_threads' = n
  /\ last' = Last("set_thread_limit", 0, 0, 0, "none", World(ctx, slots))
  /\ UNCHANGED <<ctx, slots, codim>>
  /\ UNCHANGED element_vars

\* the context is destroyed
Destroy(c) ==
  /\ ctx[c].alive
  /\ LET W == Destructor(c, World(ctx, slots))
     IN  /\ ctx' = W.ctx
         /\ slots' = W.slots
         /\ last' = Last("destructor", c, 0, 0, "none", W)
  /\ UNCHANGED <<n_threads, codim>>
  /\ UNCHANGED element_vars

Next ==
  \/ \E c \in Contexts, cell \in Cells, answer \in MappingAnswers :
       ReinitCell(c, cell, FALSE, answer)
  \/ \E c \in Contexts, cell \in Cells : ReinitFace(c, cell)
  \/ \E c \in Contexts, cell \in Cells : ReinitSubface(c, cell)
  \/ \E tria \in Trias, event \in MeshEvents : MeshChange(tria, event)
  \/ \E c \in Contexts : Invalidate(c)
  \/ \E c \in Contexts : Destroy(c)
  \/ \E n \in 1..MaxThreads : SetThreadLimit(n)

Spec == Init /\ [][Next]_vars

-----------------------------------------------------------------------------
(* Properties of the lifecycle *)

\* the context exists and has a present cell
Bound(c) == ctx[c].alive /\ ctx[c].present_cell.initialized

\* the last operation was a reinit of an FEValues context
CellReinit == last.op = "reinit" /\ ctx[last.c].kind = "FEValues"

\* the similarity values the last operation computed in
\* check_cell_similarity and handed to the mapping
Classified ==
  {last.calls[i].sim : i \in {j \in DOMAIN last.calls :
     last.calls[j].fn \in {"check_cell_similarity", "mapping.fill_fe_values"}}}

\* the last operation was a reinit that changed the triangulation
MeshSwitch(l) ==
  /\ l.op = "reinit"
  /\ l.cell_before.initialized
  /\ get_triangulation(l.cell_before.cell) # l.tria

\* C1: whenever a triangulation announces a change (refinement, another
\* topology change, or a mesh movement), every context whose present cell
\* is a cell of it has no present cell afterwards, and a context without
\* present cell gets one only by a reinit of that context.
C1_EveryChangeInvalidates ==
  [][ /\ last'.op = "announce" =>
           \A c \in BoundTo(ctx, last'.tria) :
             ~ ctx'[c].present_cell.initialized
      /\ \A c \in Contexts :
           (~ ctx[c].present_cell.initialized /\
            ctx'[c].present_cell.initialized)
             => (last'.op = "reinit" /\ last'.c = c) ]_vars

\* C3: a cell reinit that starts without present cell, or with the
\* similarity invalid_next_cell left by the previous reinit, classifies the
\* new cell as none and hands none to the mapping, whatever the new cell is.
C3_NoneWithoutReusableCell ==
  (CellReinit /\ (~ last.cell_before.initialized \/
                  last.similarity_before = "invalid_next_cell"))
    => Classified = {"none"}

C3_Witness ==
  /\ CellReinit
  /\ n_threads = 1
  /\ last.cell_before.initialized
  /\ last.similarity_before = "invalid_next_cell"
  /\ get_triangulation(last.cell_before.cell) = last.tria
  /\ is_translation_of(last.cell, last.cell_before.cell)
  /\ \E i \in DOMAIN last.calls :
       last.calls[i] = [fn |-> "mapping.fill_fe_values", sim |-> "none"]

\* C4: with more than one worker thread, every cell reinit classifies the
\* new cell as none, also when it is a translate of the present cell and
\* the previous reinit left translation or inverted_translation.
C4_NoneWhenMultithreaded ==
  (CellReinit /\ n_threads > 1) => Classified = {"none"}

C4_Witness ==
  /\ CellReinit
  /\ n_threads > 1
  /\ last.cell_before.initialized
  /\ last.similarity_before \in {"translation", "inverted_translation"}
  /\ get_triangulation(last.cell_before.cell) = last.tria
  /\ is_translation_of(last.cell, last.cell_before.cell)
  /\ Classified = {"none"}

\* the slots of context c that are connected
SlotsOf(c) == {s \in slots : s.c = c}

\* C5: a reinit that binds a cell of another triangulation leaves the
\* context connected to any_change and mesh_movement of the new
\* triangulation and to nothing else; right after it, a change announced by
\* the old triangulation leaves the context as it is and a change of any
\* kind announced by the new one takes its present cell away.
C5_SwitchResubscribes ==
  [][ /\ MeshSwitch(last') =>
           {s \in slots' : s.c = last'.c} =
             { [tria |-> last'.tria, signal |-> "any_change", c |-> last'.c],
               [tria |-> last'.tria, signal |-> "mesh_movement",
                c |-> last'.c] }
      /\ (MeshSwitch(last) /\ last'.op = "announce") =>
           IF last'.tria = last.tria
             THEN ~ ctx'[last.c].present_cell.initialized
             ELSE ctx'[last.c] = ctx[last.c] ]_vars

C5_Witness ==
  /\ MeshSwitch(last)
  /\ Bound(last.c)
  /\ ctx[last.c].tria_listener_refinement =
       [tria |-> last.tria, signal |-> "any_change", c |-> last.c]
  /\ ctx[last.c].tria_listener_mesh_transform =
       [tria |-> last.tria, signal |-> "mesh_movement", c |-> last.c]

\* C6: a reinit of any class leaves the context with a present cell; a
\* context loses its present cell only in invalidate_present_cell, called
\* directly or by a change of the triangulation, or by being destroyed.
C6_ReinitKeepsBound ==
  [][ /\ last'.op = "reinit" =>
           (ctx'[last'.c].alive /\ ctx'[last'.c].present_cell.initialized)
      /\ \A c \in Contexts :
           (Bound(c) /\ ~ Bound(c)')
             => last'.op \in {"invalidate", "announce", "destructor"} ]_vars

C6_Witness ==
  /\ MeshSwitch(last)
  /\ ctx[last.c].kind = "FESubfaceValues"
  /\ Bound(last.c)
  /\ ctx[last.c].present_cell.cell = last.cell

\* C7: a destroyed context has no connected slot, whether it had a present
\* cell or not, and no change announced afterwards calls its
\* invalidate_present_cell.
C7_DestructorDisconnects ==
  \A c \in Contexts :
    ~ ctx[c].alive => (SlotsOf(c) = {} /\ "destroyed" \notin last.failed)

C7_Witness ==
  \E c \in Contexts :
    /\ ~ ctx[c].alive
    /\ ctx[c].present_cell.initialized
    /\ last.op = "announce"
    /\ last.event = "mesh_movement"
    /\ last.tria = get_triangulation(ctx[c].present_cell.cell)

\* the positions in the calls of the last operation at which fn was called
CallsOf(fn) == {i \in DOMAIN last.calls : last.calls[i].fn = fn}

\* the fills a reinit dispatches to the mapping and to the finite element
Fills ==
  { prefix \o name :
      prefix \in {"mapping.", "fe."},
      name \in {"fill_fe_values", "fill_fe_face_values",
                "fill_fe_subface_values"} }

FillCalls == UNION {CallsOf(fn) : fn \in Fills}

\* the last operation classified once, before it bound the new cell and
\* before it dispatched a fill
ClassifiedFirst ==
  /\ Cardinality(CallsOf("check_cell_similarity")) = 1
  /\ \A i \in CallsOf("check_cell_similarity") :
       \A j \in CallsOf("present_cell") \cup FillCalls : i < j

\* C22 as stated: every reinit of a cell, a face or a subface classifies
\* cell similarity against the previously bound cell, before it binds the
\* new cell and before it dispatches the fills.
C22_EveryReinitClassifies ==
  last.op = "reinit" => ClassifiedFirst

\* C22: every cell reinit classifies cell similarity once, before it binds
\* the new cell and before it dispatches the fills of the mapping and of
\* the finite element; a face or subface reinit binds the new cell and
\* dispatches its fills without classifying and leaves cell_similarity as
\* it was.
C22_CellReinitClassifies ==
  last.op = "reinit" =>
    /\ CallsOf("present_cell") # {}
    /\ FillCalls # {}
    /\ \A i \in CallsOf("present_cell") : \A j \in FillCalls : i < j
    /\ IF ctx[last.c].kind = "FEValues"
         THEN ClassifiedFirst
         ELSE /\ CallsOf("check_cell_similarity") = {}
              /\ ctx[last.c].cell_similarity = last.similarity_before

C22_Witness ==
  /\ CellReinit
  /\ n_threads = 1
  /\ last.cell_before.initialized
  /\ last.cell_before.cell # last.cell
  /\ last.calls[1] = [fn |-> "check_cell_similarity", sim |-> "translation"]
  /\ last.calls[2].fn = "present_cell"
  /\ "update_JxW_values" \in ctx[last.c].update_flags
  /\ last.calls[3].fn = "mapping.fill_fe_values"
  /\ last.calls[5].fn = "fe.fill_fe_values"

\* the value check_cell_similarity computed in the last operation
classification == last.calls[1].sim

\* the new cell of the last operation is a translate of the cell bound
\* before it
Translate == is_translation_of(last.cell, last.cell_before.cell)

\* the direction flags of the new cell and of the cell bound before differ
Flipped == direction_flag(last.cell_before.cell) # direction_flag(last.cell)

\* C23 as stated: in a single-threaded cell reinit with a bound previous
\* cell whose last fill was not flagged invalid_next_cell, the
\* classification is translation iff the new cell is a translate of the
\* previous cell, else none, refined to inverted_translation exactly when
\* it is translation, the ambient space has one more dimension than the
\* manifold and the direction flags of the two cells differ.
C23_TranslateOfBoundCell ==
  (/\ CellReinit
   /\ n_threads = 1
   /\ last.cell_before.initialized
   /\ last.similarity_before # "invalid_next_cell") =>
     classification =
       IF Translate /\ codim = 1 /\ Flipped THEN "inverted_translation"
       ELSE IF Translate THEN "translation"
       ELSE "none"

\* C23: in a single-threaded cell reinit with a bound previous cell of the
\* same triangulation whose last fill was not flagged invalid_next_cell,
\* the classification is translation iff the new cell is a translate of
\* the previous cell, else none, refined to inverted_translation exactly
\* when it is translation, the manifold has fewer dimensions than the
\* ambient space and the direction flags of the two cells differ.
C23_TranslateOfCellOfSameMesh ==
  (/\ CellReinit
   /\ n_threads = 1
   /\ last.cell_before.initialized
   /\ get_triangulation(last.cell_before.cell) = last.tria
   /\ last.similarity_before # "invalid_next_cell") =>
     classification =
       IF Translate /\ codim > 0 /\ Flipped THEN "inverted_translation"
       ELSE IF Translate THEN "translation"
       ELSE "none"

C23_Witness ==
  /\ CellReinit
  /\ n_threads = 1
  /\ codim = 1
  /\ last.cell_before.initialized
  /\ last.cell_before.cell # last.cell
  /\ get_triangulation(last.cell_before.cell) = last.tria
  /\ last.similarity_before = "translation"
  /\ Translate
  /\ Flipped
  /\ classification = "inverted_translation"

\* in the instantiations with spacedim - dim of 0 or 1 the statement holds
\* as it stands for a previous cell of the same triangulation
C23_OneMoreDimension ==
  (/\ CellReinit
   /\ n_threads = 1
   /\ codim <= 1
   /\ last.cell_before.initialized
   /\ get_triangulation(last.cell_before.cell) = last.tria
   /\ last.similarity_before # "invalid_next_cell") =>
     classification =
       IF Translate /\ codim = 1 /\ Flipped THEN "inverted_translation"
       ELSE IF Translate THEN "translation"
       ELSE "none"

\* the names of the calls of the last operation, in their order
steps == [i \in DOMAIN last.calls |-> last.calls[i].fn]

\* the context of the last operation asked for data of the mapping
MappingRequested == ctx[last.c].update_flags \cap update_mapping # {}

\* the four steps in their order: the geometry fill is given the
\* classification and has returned when the shape-data fill starts, and
\* the shape-data fill is given the value the geometry fill returned,
\* which is the value get_cell_similarity reports
FourSteps ==
  /\ steps = <<"check_cell_similarity", "present_cell",
               "mapping.fill_fe_values", "mapping.fill_fe_values returned",
               "fe.fill_fe_values">>
  /\ last.calls[3].sim = last.calls[1].sim
  /\ last.calls[5].sim = last.calls[4].sim
  /\ ctx[last.c].cell_similarity = last.calls[4].sim

\* C24 as stated: in every cell reinit the steps are, in this order,
\* classify, bind the new cell, geometry fill of the mapping, shape-data
\* fill of the finite element; the shape-data fill is given the similarity
\* the geometry fill returned, which get_cell_similarity reports.
C24_FourStepsInEveryReinit ==
  CellReinit => FourSteps

\* C24: in every cell reinit of a context that asked for data of the
\* mapping the steps are, in this order, classify, bind the new cell,
\* geometry fill, shape-data fill, and the shape-data fill is given the
\* similarity the geometry fill returned, which get_cell_similarity
\* reports; without data of the mapping there is no geometry fill and the
\* shape-data fill is given the classification, which get_cell_similarity
\* reports.
C24_StepsInOrder ==
  CellReinit =>
    IF MappingRequested
      THEN FourSteps
      ELSE /\ steps = <<"check_cell_similarity", "present_cell",
                        "fe.fill_fe_values">>
           /\ last.calls[3].sim = last.calls[1].sim
           /\ ctx[last.c].cell_similarity = last.calls[1].sim

C24_Witness ==
  /\ CellReinit
  /\ MappingRequested
  /\ Len(last.calls) = 5
  /\ last.calls[1].sim = "translation"
  /\ last.calls[4].sim = "invalid_next_cell"
  /\ last.calls[5] = [fn |-> "fe.fill_fe_values", sim |-> "invalid_next_cell"]
  /\ ctx[last.c].cell_similarity = "invalid_next_cell"

\* C26: after any sequence of reinits, on the same or on different
\* triangulations, and of changes announced by the triangulations, a
\* context has connected slots if and only if it has a present cell, and
\* then exactly the two its handles refer to, one for a change of the
\* topology and one for mesh_movement, both of the triangulation of the
\* present cell; no announcement calls invalidate_present_cell of a context
\* without present cell, so its assertion never fails, also when a change
\* fires several signals one after the other.
C26_SubscribedIffBound ==
  /\ "ExcInternalError" \notin last.failed
  /\ \A c \in Contexts :
       ctx[c].alive =>
         IF ctx[c].present_cell.initialized
           THEN LET tria == get_triangulation(ctx[c].present_cell.cell)
                    r    == ctx[c].tria_listener_refinement
                    m    == ctx[c].tria_listener_mesh_transform
                IN  /\ SlotsOf(c) = {r, m}
                    /\ r.tria = tria /\ r.c = c
                    /\ r.signal \in {"post_refinement", "any_change"}
                    /\ m = [tria |-> tria, signal |-> "mesh_movement",
                            c |-> c]
           ELSE /\ SlotsOf(c) = {}
                /\ ctx[c].tria_listener_refinement = NoConnection
                /\ ctx[c].tria_listener_mesh_transform = NoConnection

\* a refinement of the triangulation of the present cell has fired
\* post_refinement and any_change one after the other and has left the
\* context without present cell and without slot
C26_Witness ==
  /\ last.op = "announce"
  /\ last.event = "refinement"
  /\ last.bound_before # {}
  /\ last.failed = {}
  /\ \A c \in last.bound_before :
       ctx[c].alive /\ ~ ctx[c].present_cell.initialized /\ SlotsOf(c) = {}

\* the similarity values operation l computed in check_cell_similarity
\* and handed to the mapping
ClassifiedIn(l) ==
  {l.calls[i].sim : i \in {j \in DOMAIN l.calls :
     l.calls[j].fn \in {"check_cell_similarity", "mapping.fill_fe_values"}}}

\* C27: the cell reinit that follows a change announced to the context,
\* every cell reinit of a context that has lost its present cell, and
\* every cell reinit that binds a cell of another triangulation than the
\* one bound before classify the new cell as none and hand none to the
\* mapping, also when the new cell is a translate of the cell bound
\* before.
C27_NoReuseAcrossMeshChange ==
  [][ /\ (/\ last.op = "announce"
          /\ last'.op = "reinit"
          /\ last'.c \in last.bound_before
          /\ ~ ctx[last'.c].present_cell.initialized
          /\ ctx[last'.c].kind = "FEValues") =>
            ClassifiedIn(last') = {"none"}
      /\ (/\ last'.op = "reinit"
          /\ ctx[last'.c].kind = "FEValues"
          /\ (~ last'.cell_before.initialized \/ MeshSwitch(last'))) =>
            ClassifiedIn(last') = {"none"} ]_vars

\* a single-threaded cell reinit on the translate, on the other
\* triangulation, of the cell bound before, which was classified
\* translation, with the mapping called
C27_Witness ==
  /\ CellReinit
  /\ MeshSwitch(last)
  /\ n_threads = 1
  /\ last.similarity_before = "translation"
  /\ Translate
  /\ MappingRequested
  /\ ClassifiedIn(last) = {"none"}

-----------------------------------------------------------------------------
(* The specification of the row table and of the views: an element is
   chosen, finite_element_output is initialized for it and views are
   constructed on it *)

\* largest number of shape functions of an element
MaxDofs == 2

\* largest number of components of an element
MaxComponents == 4

\* number of quadrature points of the contexts
NQuadraturePoints == 2

\* the space dimensions the library is compiled for
Dimensions == {1, 2, 3}

\* the update flags finite_element_output is initialized for
InitializeFlags == { {"update_values"}, ValueFlags }

\* the one context of the specifications that have no reinit
IdleContexts == [c \in Contexts |-> FEValuesBase("FEValues", {})]

InitViews ==
  /\ ctx = IdleContexts
  /\ slots = {}
  /\ n_threads = 1
  /\ codim = 0
  /\ last = NoOperation
  /\ dim \in Dimensions
  /\ fe \in UNION { Elements(n, nc) :
                      n \in 1..MaxDofs, nc \in 1..MaxComponents }
  /\ finite_element_output = NoOutput
  /\ view = NoView
  /\ result = NoResult

\* finite_element_output.initialize(n_quadrature_points, fe, flags)
InitializeOutput(flags) ==
  /\ ~ finite_element_output.initialized
  /\ finite_element_output' = initialize(NQuadraturePoints, fe, flags)
  /\ UNCHANGED <<dim, fe, view, result>>
  /\ UNCHANGED lifecycle_vars

\* FEValuesViews::Scalar(fe_values, component)
MakeScalar(component) ==
  /\ result = NoResult
  /\ view' = Scalar(fe, component)
  /\ result' = NoResult
  /\ UNCHANGED <<dim, fe, finite_element_output>>
  /\ UNCHANGED lifecycle_vars

\* FEValuesViews::Vector(fe_values, first_vector_component)
MakeVector(first) ==
  /\ result = NoResult
  /\ view' = Vector(fe, first, dim + codim)
  /\ result' = NoResult
  /\ UNCHANGED <<dim, fe, finite_element_output>>
  /\ UNCHANGED lifecycle_vars

\* FEValuesViews::SymmetricTensor<2>(fe_values, first_tensor_component)
MakeSymmetricTensor(first) ==
  /\ result = NoResult
  /\ view' = SymmetricTensor(fe, first, dim)
  /\ result' = NoResult
  /\ UNCHANGED <<dim, fe, finite_element_output>>
  /\ UNCHANGED lifecycle_vars

\* FEValuesViews::Tensor<2>(fe_values, first_tensor_component)
MakeTensor(first) ==
  /\ result = NoResult
  /\ view' = Tensor(fe, first, dim)
  /\ result' = NoResult
  /\ UNCHANGED <<dim, fe, finite_element_output>>
  /\ UNCHANGED lifecycle_vars

\* the components a view is asked for: those of the element, the one past
\* them, and numbers::invalid_unsigned_int, the component of a
\* default-constructed extractor
ComponentArguments == (0..fe.n_components) \cup {invalid_unsigned_int}

NextViews ==
  \/ \E flags \in InitializeFlags : InitializeOutput(flags)
  \/ \E component \in ComponentArguments : MakeScalar(component)
  \/ \E first \in ComponentArguments : MakeVector(first)
  \/ \E first \in ComponentArguments : MakeSymmetricTensor(first)
  \/ \E first \in ComponentArguments : MakeTensor(first)

SpecViews == InitViews /\ [][NextViews]_vars

\* the positions of the row table that are not the sentinel
RowEntries(table) == {k \in DOMAIN table : table[k] # invalid_unsigned_int}

\* the pairs (shape function, component) whose mask bit is set
NonzeroPairs(element) ==
  { p \in (0..(element.n_dofs_per_cell - 1)) \X
           (0..(element.n_components - 1)) :
      p[2] \in get_nonzero_components(element, p[1]) }

\* C8: in the row table of an initialized finite_element_output, the
\* non-sentinel entries of shape function i are exactly the entries of the
\* components whose mask bit is set, so there are n_nonzero_components(i)
\* of them, and the non-sentinel entries of the whole table are the numbers
\* 0 .. total_nonzero_pairs - 1, each exactly once.
C8_RowTableIsDense ==
  finite_element_output.initialized =>
    LET table == finite_element_output.shape_function_to_row_table
        nc    == fe.n_components
        total == Cardinality(NonzeroPairs(fe))
    IN  /\ DOMAIN table = 0..(fe.n_dofs_per_cell * nc - 1)
        /\ \A i \in 0..(fe.n_dofs_per_cell - 1) :
             /\ {c \in 0..(nc - 1) : (i * nc + c) \in RowEntries(table)} =
                  get_nonzero_components(fe, i)
             /\ Cardinality({c \in 0..(nc - 1) :
                               (i * nc + c) \in RowEntries(table)}) =
                  n_nonzero_components(fe, i)
        /\ {table[k] : k \in RowEntries(table)} = 0..(total - 1)
        /\ Cardinality(RowEntries(table)) = total

C8_Witness ==
  /\ finite_element_output.initialized
  /\ fe.n_dofs_per_cell = 2
  /\ fe.n_components = 3
  /\ get_nonzero_components(fe, 0) = {0, 2}
  /\ get_nonzero_components(fe, 1) = {1, 2}
  /\ finite_element_output.shape_function_to_row_table[5] = 3

\* the sub-components of a view that are flagged non-zero for a shape
\* function
Flagged(data, K) ==
  {d \in 0..(K - 1) : data.is_nonzero_shape_function_component[d]}

\* C9: in every Vector, SymmetricTensor and Tensor view, for every shape
\* function, single_nonzero_component is -2 iff none of the K flags is
\* true, -1 iff more than one is true, and with exactly one flag true it is
\* the row index of that sub-component and
\* single_nonzero_component_index is the position of that sub-component.
C9_ClassifierMatchesFlags ==
  (view.kind \in {"Vector", "SymmetricTensor", "Tensor"} /\
   view.failed = {}) =>
    \A i \in 0..(fe.n_dofs_per_cell - 1) :
      LET data    == view.shape_function_data[i]
          flagged == Flagged(data, view.K)
      IN  /\ (data.single_nonzero_component = -2) <=> (flagged = {})
          /\ (data.single_nonzero_component = -1) <=>
                (Cardinality(flagged) > 1)
          /\ Cardinality(flagged) = 1 =>
                \E d \in flagged :
                  /\ data.single_nonzero_component = data.row_index[d]
                  /\ data.single_nonzero_component # invalid_unsigned_int
                  /\ data.single_nonzero_component_index = d

C9_Witness ==
  /\ view.kind = "SymmetricTensor"
  /\ view.failed = {}
  /\ view.K = 3
  /\ \E i, j \in 0..(fe.n_dofs_per_cell - 1) :
       /\ view.shape_function_data[i].single_nonzero_component = -1
       /\ view.shape_function_data[j].single_nonzero_component >= 0
       /\ view.shape_function_data[j].single_nonzero_component_index = 2

\* the flag and the row index a view holds for sub-component d of shape
\* function i
flag_of(i, d) ==
  IF view.kind = "Scalar"
    THEN view.shape_function_data[i].is_nonzero_shape_function_component
    ELSE view.shape_function_data[i].is_nonzero_shape_function_component[d]

row_of(i, d) ==
  IF view.kind = "Scalar"
    THEN view.shape_function_data[i].row_index
    ELSE view.shape_function_data[i].row_index[d]

\* the rows at which the kernels of the view address the tables of shape
\* data for shape function i: row_index[d] of the flagged sub-components
\* and, in the views with a classifier, single_nonzero_component when it
\* is not negative
AddressedRows(i) ==
  {row_of(i, d) : d \in {x \in 0..(view.K - 1) : flag_of(i, x)}} \cup
  IF view.kind = "Scalar" \/
     view.shape_function_data[i].single_nonzero_component < 0
    THEN {}
    ELSE {view.shape_function_data[i].single_nonzero_component}

\* C30: in every view that was constructed without a failure, every shape
\* function i and sub-component d has a row index other than the sentinel
\* iff its flag is true, the row index then is the entry of the row table
\* for (i, first + d), and every row at which a kernel of the view
\* addresses the tables of shape data is one of 0 .. total_nonzero_pairs-1.
C30_RowIndexIffFlag ==
  (view.kind # "none" /\ view.failed = {}) =>
    LET table == make_shape_function_to_row_table(fe)
        total == Cardinality(NonzeroPairs(fe))
    IN  \A i \in 0..(fe.n_dofs_per_cell - 1) :
          /\ \A d \in 0..(view.K - 1) :
               /\ (row_of(i, d) # invalid_unsigned_int) <=> flag_of(i, d)
               /\ flag_of(i, d) =>
                    /\ unsigned_sum(view.first, d) < fe.n_components
                    /\ row_of(i, d) =
                         table[i * fe.n_components +
                               unsigned_sum(view.first, d)]
          /\ AddressedRows(i) \subseteq 0..(total - 1)

\* a Vector view of two sub-components at component 1 of an element with a
\* primitive and a non-primitive shape function, each with one flagged and
\* one unflagged sub-component
C30_Witness ==
  /\ view.kind = "Vector"
  /\ view.failed = {}
  /\ view.K = 2
  /\ view.first = 1
  /\ fe.n_dofs_per_cell = 2
  /\ is_primitive_shape_function(fe, 0)
  /\ ~ is_primitive_shape_function(fe, 1)
  /\ flag_of(0, 0) /\ ~ flag_of(0, 1)
  /\ ~ flag_of(1, 0) /\ flag_of(1, 1)
  /\ row_of(0, 0) = 0
  /\ row_of(1, 1) = 2
  /\ row_of(0, 1) = invalid_unsigned_int

\* C15: a view of K sub-components constructed at a component offset with
\* offset + K greater than the number of components of the element (for a
\* Scalar view: offset >= n_components) fails the assertion of its
\* constructor, so that no entry of the row table or of a mask is read at a
\* component the element does not have.
C15_WindowOutOfRangeFails ==
  (/\ view.kind \in {"Scalar", "Vector", "SymmetricTensor", "Tensor"}
   /\ view.first > fe.n_components - view.K) =>
     view.failed # {}

\* the same for the offsets for which offset + K - 1 is an unsigned int
C15_WindowWithoutOverflowFails ==
  (/\ view.kind \in {"Scalar", "Vector", "SymmetricTensor", "Tensor"}
   /\ view.first > fe.n_components - view.K
   /\ view.first <= invalid_unsigned_int - (view.K - 1)) =>
     view.failed = {"ExcIndexRange"} /\ view.shape_function_data = <<>>

-----------------------------------------------------------------------------
(* The specification of the kernels: on an element whose shape data a
   reinit has filled, a view is constructed and one of its accessors is
   called for every coefficient array *)

\* the coefficients are the integers of absolute value up to MaxCoefficient
MaxCoefficient == 1

\* the shape data are one of the tables 0..MaxSeed
MaxSeed == 0

\* the factors of the linear combinations
Factors == {-1, 2}

CoefficientArrays(n) ==
  [0..(n - 1) -> (0 - MaxCoefficient)..MaxCoefficient]

\* the elements the kernels are evaluated on
KernelElements == Elements(MaxDofs, MaxComponents)

InitKernels ==
  /\ ctx = IdleContexts
  /\ slots = {}
  /\ n_threads = 1
  /\ codim = 0
  /\ last = NoOperation
  /\ dim \in Dimensions
  /\ fe \in KernelElements
  /\ \E seed \in 0..MaxSeed :
       finite_element_output =
         fill_fe_values(initialize(NQuadraturePoints, fe, ValueFlags), seed)
  /\ view = NoView
  /\ result = NoResult

\* a * c1 + b * c2 for coefficient arrays c1, c2
linear_combination(a, c1, b, c2) ==
  [i \in DOMAIN c1 |-> a * c1[i] + b * c2[i]]

\* the output array handed to an accessor: n_quadrature_points entries
\* with whatever they held before
output_array(n_quadrature_points) ==
  [q_point \in 0..(n_quadrature_points - 1) |-> "stale"]

\* view.get_function_<name>_from_local_dof_values, called once for every
\* coefficient array
GetFunction(name) ==
  /\ view.kind # "none"
  /\ view.failed = {}
  /\ result = NoResult
  /\ name \in Kernels(view.kind)
  /\ LET tables == shape_tables(finite_element_output, NQuadraturePoints,
                                dim + codim)
     IN  result' =
           [ op      |-> "kernel",
             name    |-> name,
             outputs |->
               [ c \in CoefficientArrays(fe.n_dofs_per_cell) |->
                   apply_kernel(view, name, "double", c, tables,
                                output_array(NQuadraturePoints),
                                dim, dim + codim) ] ]
  /\ UNCHANGED <<dim, fe, finite_element_output, view>>
  /\ UNCHANGED lifecycle_vars

NextKernels ==
  \/ \E component \in 0..fe.n_components : MakeScalar(component)
  \/ \E first \in 0..fe.n_components : MakeVector(first)
  \/ \E first \in 0..fe.n_components : MakeSymmetricTensor(first)
  \/ \E first \in 0..fe.n_components : MakeTensor(first)
  \/ \E name \in Kernels(view.kind) : GetFunction(name)

SpecKernels == InitKernels /\ [][NextKernels]_vars

\* the calls for c1, c2 and a * c1 + b * c2 among the calls made
Combinations ==
  { t \in (DOMAIN result.outputs) \X (DOMAIN result.outputs) \X
          Factors \X Factors :
      linear_combination(t[3], t[1], t[4], t[2]) \in DOMAIN result.outputs }

\* C10: whenever an accessor of a view has produced its output for two
\* coefficient arrays c1 and c2, it produces one for a*c1 + b*c2, and that
\* output is a times the output for c1 plus b times the output for c2, at
\* every quadrature point and in every component, for every kernel of
\* every view and also when coefficients of c1, of c2 or of the
\* combination are zero.
C10_KernelsAreLinear ==
  result.op = "kernel" =>
    \A t \in Combinations :
      LET out1 == result.outputs[t[1]]
          out2 == result.outputs[t[2]]
          out  == result.outputs[linear_combination(t[3], t[1], t[4], t[2])]
      IN  (out1.failed = {} /\ out2.failed = {}) =>
            /\ out.failed = {}
            /\ \A q_point \in DOMAIN out.out :
                 \A i \in DOMAIN out.out[q_point] :
                   out.out[q_point][i] =
                     t[3] * out1.out[q_point][i] + t[4] * out2.out[q_point][i]

C10_Witness ==
  /\ result.op = "kernel"
  /\ result.name = "symmetric_gradients"
  /\ dim = 2
  /\ \E t \in Combinations :
       LET c == linear_combination(t[3], t[1], t[4], t[2])
       IN  /\ result.outputs[c].failed = {}
           /\ \E i, j \in DOMAIN c :
                /\ view.shape_function_data[i].single_nonzero_component = -1
                /\ t[1][i] # 0
                /\ t[2][i] # 0
                /\ c[i] = 0
                /\ view.shape_function_data[j].single_nonzero_component >= 0
                /\ c[j] # 0
           /\ \E q_point \in DOMAIN result.outputs[c].out :
                \E i \in DOMAIN result.outputs[c].out[q_point] :
                  result.outputs[c].out[q_point][i] # 0

\* the coefficient array whose entries are all zero
ZeroCoefficients == [i \in 0..(fe.n_dofs_per_cell - 1) |-> 0]

\* C11: for every kernel of every view, the call with the all-zero
\* coefficient array leaves the additive identity in every entry of the
\* output at every quadrature point, whatever the output array held before
\* the call and whatever the classifiers of the shape functions are; the
\* call itself fails only for the curl in one space dimension, after the
\* output has been filled.
C11_ZeroCoefficientsGiveIdentity ==
  result.op = "kernel" =>
    LET zero == result.outputs[ZeroCoefficients]
    IN  /\ DOMAIN zero.out = 0..(NQuadraturePoints - 1)
        /\ \A q_point \in DOMAIN zero.out :
             /\ DOMAIN zero.out[q_point] # {}
             /\ \A k \in DOMAIN zero.out[q_point] :
                  zero.out[q_point][k] = 0
        /\ zero.failed # {} => (result.name = "curls" /\ dim + codim = 1)

C11_Witness ==
  /\ result.op = "kernel"
  /\ result.name = "divergences"
  /\ view.kind = "Tensor"
  /\ dim = 2
  /\ view.shape_function_data[0].single_nonzero_component = -1
  /\ view.shape_function_data[1].single_nonzero_component >= 0
  /\ result.outputs[ZeroCoefficients].failed = {}
  /\ \A q_point \in 0..(NQuadraturePoints - 1) :
       result.outputs[ZeroCoefficients].out[q_point] = ZeroTensor(1, 2)
  /\ \E c \in DOMAIN result.outputs :
       \E q_point \in 0..(NQuadraturePoints - 1) :
         /\ result.outputs[c].failed = {}
         /\ result.outputs[c].out[q_point] # ZeroTensor(1, 2)

\* the kernel of the last call without the test for a zero coefficient:
\* its instantiation for an auto-differentiable number type, for which
\* CheckForZero is false, on the same values
always_accumulated(c) ==
  apply_kernel(view, result.name, "ad_number", c,
               shape_tables(finite_element_output, NQuadraturePoints,
                            dim + codim),
               output_array(NQuadraturePoints), dim, dim + codim)

\* the kernels that implement the branch for shape functions with several
\* non-zero sub-components
Implemented ==
  ~ \/ view.kind = "SymmetricTensor" /\ result.name = "divergences"
    \/ view.kind = "Tensor" /\ result.name \in {"divergences", "gradients"}

\* C12: for every kernel of every view and every coefficient array of a
\* number type that is not auto-differentiable, the call gives what the
\* same kernel gives when it does not test the coefficients for zero and
\* accumulates every shape function that is not structurally zero: the
\* same output at every quadrature point, and a failure in the one exactly
\* when in the other.
C12_SkippingZeroChangesNothing ==
  result.op = "kernel" =>
    \A c \in DOMAIN result.outputs :
      result.outputs[c] = always_accumulated(c)

\* the same for the kernels that implement every branch
C12_ImplementedKernelsAgree ==
  (result.op = "kernel" /\ Implemented) =>
    \A c \in DOMAIN result.outputs :
      result.outputs[c] = always_accumulated(c)

\* what the kernel called name gives for coefficients c on the view and
\* the shape data of the last call
kernel_output(name, c) ==
  apply_kernel(view, name, "double", c,
               shape_tables(finite_element_output, NQuadraturePoints,
                            dim + codim),
               output_array(NQuadraturePoints), dim, dim + codim)

\* t[d] of a tensor t whose entries t[d] have m numbers
sub_tensor(t, d, m) == [k \in 0..(m - 1) |-> t[d * m + k]]

\* C13: for the same coefficients and the same table of Hessians, the
\* output of the Laplacian kernel at every quadrature point is the trace of
\* the output of the Hessian kernel at that point: of the one Hessian for a
\* Scalar view, of the Hessian of each of the spacedim components for a
\* Vector view.
C13_LaplacianIsTraceOfHessian ==
  (result.op = "kernel" /\ result.name = "laplacians") =>
    \A c \in DOMAIN result.outputs :
      LET spacedim   == dim + codim
          laplacians == result.outputs[c]
          hessians   == kernel_output("hessians", c)
      IN  /\ laplacians.failed = {}
          /\ hessians.failed = {}
          /\ \A q_point \in 0..(NQuadraturePoints - 1) :
               IF view.kind = "Scalar"
                 THEN laplacians.out[q_point] =
                        number(trace(hessians.out[q_point], spacedim))
                 ELSE laplacians.out[q_point] =
                        [ d \in 0..(spacedim - 1) |->
                            trace(sub_tensor(hessians.out[q_point], d,
                                             spacedim * spacedim),
                                  spacedim) ]

C13_Witness ==
  /\ result.op = "kernel"
  /\ result.name = "laplacians"
  /\ view.kind = "Vector"
  /\ dim = 2
  /\ view.shape_function_data[0].single_nonzero_component = -1
  /\ view.shape_function_data[1].single_nonzero_component >= 0
  /\ \E c \in DOMAIN result.outputs :
       /\ c[0] # 0
       /\ c[1] # 0
       /\ \E q_point \in 0..(NQuadraturePoints - 1) :
            /\ result.outputs[c].out[q_point][0] # 0
            /\ result.outputs[c].out[q_point][1] # 0
            /\ result.outputs[c].out[q_point][0] #
                 kernel_output("hessians", c).out[q_point][0]

\* the shape functions with several non-zero sub-components in the window
\* of the view
SeveralNonzero ==
  { i \in 0..(fe.n_dofs_per_cell - 1) :
      view.shape_function_data[i].single_nonzero_component = -1 }

\* C16: the divergence of a SymmetricTensor view and the divergence and the
\* gradient of a Tensor view, on an element with a shape function that has
\* several non-zero sub-components in the window of the view (classifier
\* -1), fail for every coefficient array and give no output.
C16_UnimplementedBranchFails ==
  (result.op = "kernel" /\ ~ Implemented /\ SeveralNonzero # {}) =>
    \A c \in DOMAIN result.outputs :
      result.outputs[c].failed = {"ExcNotImplemented"}

\* they fail exactly for the coefficient arrays with a non-zero coefficient
\* of such a shape function
C16_FailsForNonzeroCoefficient ==
  (result.op = "kernel" /\ ~ Implemented) =>
    \A c \in DOMAIN result.outputs :
      (result.outputs[c].failed = {"ExcNotImplemented"}) <=>
        (\E i \in SeveralNonzero : c[i] # 0)

\* C17: in one space dimension the curl of a Vector view fails its
\* assertion for every coefficient array, the all-zero one included, and
\* gives no curl.
C17_CurlFailsIn1D ==
  (result.op = "kernel" /\ result.name = "curls" /\ dim + codim = 1) =>
    \A c \in DOMAIN result.outputs :
      result.outputs[c].failed = {"ExcMessage"}

C17_Witness ==
  /\ result.op = "kernel"
  /\ result.name = "curls"
  /\ dim + codim = 1
  /\ view.kind = "Vector"
  /\ view.failed = {}
  /\ view.shape_function_data[0].single_nonzero_component >= 0
  /\ ZeroCoefficients \in DOMAIN result.outputs
  /\ result.outputs[ZeroCoefficients].failed = {"ExcMessage"}
  /\ \E c \in DOMAIN result.outputs :
       c[0] # 0 /\ result.outputs[c].failed = {"ExcMessage"}

\* the curl of a vector field with the gradient G, G[i][j] the derivative
\* of component i in direction j: G[1][0] - G[0][1] in two dimensions,
\* (G[2][1] - G[1][2], G[0][2] - G[2][0], G[1][0] - G[0][1]) in three
antisymmetric_combination(G, spacedim) ==
  LET g(i, j) == G[i * spacedim + j]
  IN  IF spacedim = 2
        THEN number(g(1, 0) - g(0, 1))
        ELSE [ d \in 0..2 |->
                 CASE d = 0 -> g(2, 1) - g(1, 2)
                   [] d = 1 -> g(0, 2) - g(2, 0)
                   [] d = 2 -> g(1, 0) - g(0, 1) ]

\* C20: in two and three space dimensions, for the same coefficients and
\* the same table of gradients, the output of the curl kernel at every
\* quadrature point is the antisymmetric combination of the output G of
\* the gradient kernel of the Vector view at that point, whether the shape
\* functions have one or several non-zero components in the window.
C20_CurlIsAntisymmetricPartOfGradient ==
  (result.op = "kernel" /\ result.name = "curls" /\ dim + codim \in {2, 3}) =>
    \A c \in DOMAIN result.outputs :
      LET curls     == result.outputs[c]
          gradients == kernel_output("gradients", c)
      IN  /\ curls.failed = {}
          /\ gradients.failed = {}
          /\ \A q_point \in 0..(NQuadraturePoints - 1) :
               curls.out[q_point] =
                 antisymmetric_combination(gradients.out[q_point],
                                           dim + codim)

C20_Witness ==
  /\ result.op = "kernel"
  /\ result.name = "curls"
  /\ dim + codim = 3
  /\ view.kind = "Vector"
  /\ view.shape_function_data[0].single_nonzero_component = -1
  /\ view.shape_function_data[1].single_nonzero_component >= 0
  /\ \E c \in DOMAIN result.outputs :
       /\ c[0] # 0
       /\ c[1] # 0
       /\ \E q_point \in 0..(NQuadraturePoints - 1) :
            \A d \in 0..2 : result.outputs[c].out[q_point][d] # 0

\* the view with shape function i classified as one with several non-zero
\* sub-components, its flags and row indices as the constructor set them
through_the_loop(v, i) ==
  [v EXCEPT !.shape_function_data[i].single_nonzero_component = -1]

\* the shape functions of the view with exactly one non-zero sub-component
SingleNonzero ==
  {i \in DOMAIN view.shape_function_data :
     view.shape_function_data[i].single_nonzero_component >= 0}

\* C29: in every kernel of a Vector, SymmetricTensor or Tensor view that
\* implements both branches, a shape function with exactly one non-zero
\* sub-component contributes the same to the same entries of the output
\* whether the kernel takes it through the branch for a single non-zero
\* component or through the loop over all the sub-components: the output
\* and the failures of the call are the same, for every coefficient array.
C29_BranchesAgree ==
  (result.op = "kernel" /\ view.kind # "Scalar" /\ Implemented) =>
    \A i \in SingleNonzero :
      \A c \in DOMAIN result.outputs :
        result.outputs[c] =
          apply_kernel(through_the_loop(view, i), result.name, "double", c,
                       shape_tables(finite_element_output, NQuadraturePoints,
                                    dim + codim),
                       output_array(NQuadraturePoints), dim, dim + codim)

\* the symmetric gradient in two dimensions of a Vector view whose shape
\* function 0 has one non-zero sub-component, with a coefficient array
\* that is non-zero for shape function 0 only and an output that is not
\* zero off the diagonal
C29_Witness ==
  /\ result.op = "kernel"
  /\ result.name = "symmetric_gradients"
  /\ view.kind = "Vector"
  /\ dim + codim = 2
  /\ 0 \in SingleNonzero
  /\ \E c \in DOMAIN result.outputs :
       /\ c[0] # 0
       /\ \A i \in DOMAIN c : i # 0 => c[i] = 0
       /\ result.outputs[c].failed = {}
       /\ \E q_point \in 0..(NQuadraturePoints - 1) :
            result.outputs[c].out[q_point][1] # 0

-----------------------------------------------------------------------------
(* The accessors get_function_values, _gradients, _hessians, _laplacians,
   _third_derivatives, ... of FEValuesBase and of the views.  Each is the
   sequence of the checks its body makes, in the order of the source, before
   it hands the coefficients to its kernel: line is where its definition
   starts.  The flavors are fe_function (a global vector, read at the
   degrees of freedom of the present cell), indices (a global vector, read
   at the indices given) and local_dof_values (the coefficients of the
   cell). *)

Accessors ==
  {
    [ owner |-> "Scalar", name |-> "values",
      flavor |-> "fe_function", line |-> 1545,
      checks |-> <<"update_values", "is_initialized", "fe_function_size",
                   "get_interpolated_dof_values">> ],
    [ owner |-> "Scalar", name |-> "values",
      flavor |-> "local_dof_values", line |-> 1576,
      checks |-> <<"update_values", "is_initialized", "dof_values_size">> ],
    [ owner |-> "Scalar", name |-> "gradients",
      flavor |-> "fe_function", line |-> 1600,
      checks |-> <<"update_gradients", "is_initialized", "fe_function_size",
                   "get_interpolated_dof_values">> ],
    [ owner |-> "Scalar", name |-> "gradients",
      flavor |-> "local_dof_values", line |-> 1630,
      checks |-> <<"update_gradients", "is_initialized", "dof_values_size">> ],
    [ owner |-> "Scalar", name |-> "hessians",
      flavor |-> "fe_function", line |-> 1654,
      checks |-> <<"update_hessians", "is_initialized", "fe_function_size",
                   "get_interpolated_dof_values">> ],
    [ owner |-> "Scalar", name |-> "hessians",
      flavor |-> "local_dof_values", line |-> 1684,
      checks |-> <<"update_hessians", "is_initialized", "dof_values_size">> ],
    [ owner |-> "Scalar", name |-> "laplacians",
      flavor |-> "fe_function", line |-> 1708,
      checks |-> <<"update_hessians", "is_initialized", "fe_function_size",
                   "get_interpolated_dof_values">> ],
    [ owner |-> "Scalar", name |-> "laplacians",
      flavor |-> "local_dof_values", line |-> 1738,
      checks |-> <<"update_hessians", "is_initialized", "dof_values_size">> ],
    [ owner |-> "Scalar", name |-> "third_derivatives",
      flavor |-> "fe_function", line |-> 1762,
      checks |-> <<"update_3rd_derivatives", "is_initialized", "fe_function_size",
                   "get_interpolated_dof_values">> ],
    [ owner |-> "Scalar", name |-> "third_derivatives",
      flavor |-> "local_dof_values", line |-> 1793,
      checks |-> <<"update_3rd_derivatives", "is_initialized", "dof_values_size">> ],
    [ owner |-> "Vector", name |-> "values",
      flavor |-> "fe_function", line |-> 1818,
      checks |-> <<"update_values", "is_initialized", "fe_function_size",
                   "get_interpolated_dof_values">> ],
    [ owner |-> "Vector", name |-> "values",
      flavor |-> "local_dof_values", line |-> 1848,
      checks |-> <<"update_values", "is_initialized", "dof_values_size">> ],
    [ owner |-> "Vector", name |-> "gradients",
      flavor |-> "fe_function", line |-> 1872,
      checks |-> <<"update_gradients", "is_initialized", "fe_function_size",
                   "get_interpolated_dof_values">> ],
    [ owner |-> "Vector", name |-> "gradients",
      flavor |-> "local_dof_values", line |-> 1902,
      checks |-> <<"update_gradients", "is_initialized", "dof_values_size">> ],
    [ owner |-> "Vector", name |-> "symmetric_gradients",
      flavor |-> "fe_function", line |-> 1926,
      checks |-> <<"update_gradients", "is_initialized", "fe_function_size",
                   "get_interpolated_dof_values">> ],
    [ owner |-> "Vector", name |-> "symmetric_gradients",
      flavor |-> "local_dof_values", line |-> 1957,
      checks |-> <<"update_gradients", "is_initialized", "dof_values_size">> ],
    [ owner |-> "Vector", name |-> "divergences",
      flavor |-> "fe_function", line |-> 1982,
      checks |-> <<"update_gradients", "is_initialized", "fe_function_size",
                   "get_interpolated_dof_values">> ],
    [ owner |-> "Vector", name |-> "divergences",
      flavor |-> "local_dof_values", line |-> 2013,
      checks |-> <<"update_gradients", "is_initialized", "dof_values_size">> ],
    [ owner |-> "Vector", name |-> "curls",
      flavor |-> "fe_function", line |-> 2037,
      checks |-> <<"update_gradients", "is_initialized", "fe_function_size",
                   "get_interpolated_dof_values">> ],
    [ owner |-> "Vector", name |-> "curls",
      flavor |-> "local_dof_values", line |-> 2067,
      checks |-> <<"update_gradients", "is_initialized", "dof_values_size">> ],
    [ owner |-> "Vector", name |-> "hessians",
      flavor |-> "fe_function", line |-> 2091,
      checks |-> <<"update_hessians", "is_initialized", "fe_function_size",
                   "get_interpolated_dof_values">> ],
    [ owner |-> "Vector", name |-> "hessians",
      flavor |-> "local_dof_values", line |-> 2121,
      checks |-> <<"update_hessians", "is_initialized", "dof_values_size">> ],
    [ owner |-> "Vector", name |-> "laplacians",
      flavor |-> "fe_function", line |-> 2145,
      checks |-> <<"update_hessians", "output_size", "is_initialized", "fe_function_size",
                   "get_interpolated_dof_values">> ],
    [ owner |-> "Vector", name |-> "laplacians",
      flavor |-> "local_dof_values", line |-> 2180,
      checks |-> <<"update_hessians", "output_size", "is_initialized", "dof_values_size">> ],
    [ owner |-> "Vector", name |-> "third_derivatives",
      flavor |-> "fe_function", line |-> 2207,
      checks |-> <<"update_3rd_derivatives", "is_initialized", "fe_function_size",
                   "get_interpolated_dof_values">> ],
    [ owner |-> "Vector", name |-> "third_derivatives",
      flavor |-> "local_dof_values", line |-> 2238,
      checks |-> <<"update_3rd_derivatives", "is_initialized", "dof_values_size">> ],
    [ owner |-> "SymmetricTensor", name |-> "values",
      flavor |-> "fe_function", line |-> 2263,
      checks |-> <<"update_values", "is_initialized", "fe_function_size",
                   "get_interpolated_dof_values">> ],
    [ owner |-> "SymmetricTensor", name |-> "values",
      flavor |-> "local_dof_values", line |-> 2293,
      checks |-> <<"update_values", "is_initialized", "dof_values_size">> ],
    [ owner |-> "SymmetricTensor", name |-> "divergences",
      flavor |-> "fe_function", line |-> 2317,
      checks |-> <<"update_gradients", "is_initialized", "fe_function_size",
                   "get_interpolated_dof_values">> ],
    [ owner |-> "Tensor", name |-> "values",
      flavor |-> "fe_function", line |-> 2373,
      checks |-> <<"update_values", "is_initialized", "fe_function_size",
                   "get_interpolated_dof_values">> ],
    [ owner |-> "Tensor", name |-> "values",
      flavor |-> "local_dof_values", line |-> 2403,
      checks |-> <<"update_values", "is_initialized", "dof_values_size">> ],
    [ owner |-> "Tensor", name |-> "divergences",
      flavor |-> "fe_function", line |-> 2427,
      checks |-> <<"update_gradients", "is_initialized", "fe_function_size",
                   "get_interpolated_dof_values">> ],
    [ owner |-> "Tensor", name |-> "divergences",
      flavor |-> "local_dof_values", line |-> 2458,
      checks |-> <<"update_gradients", "is_initialized", "dof_values_size">> ],
    [ owner |-> "Tensor", name |-> "gradients",
      flavor |-> "fe_function", line |-> 2482,
      checks |-> <<"update_gradients", "is_initialized", "fe_function_size",
                   "get_interpolated_dof_values">> ],
    [ owner |-> "Tensor", name |-> "gradients",
      flavor |-> "local_dof_values", line |-> 2513,
      checks |-> <<"update_gradients", "is_initialized", "dof_values_size">> ],
    [ owner |-> "FEValuesBase", name |-> "values",
      flavor |-> "fe_function", line |-> 3270,
      checks |-> <<"update_values", "n_components", "is_initialized", "fe_function_size",
                   "get_interpolated_dof_values">> ],
    [ owner |-> "FEValuesBase", name |-> "values",
      flavor |-> "indices", line |-> 3294,
      checks |-> <<"update_values", "n_components", "indices_size">> ],
    [ owner |-> "FEValuesBase", name |-> "values",
      flavor |-> "fe_function", line |-> 3318,
      checks |-> <<"is_initialized", "update_values", "fe_function_size",
                   "get_interpolated_dof_values">> ],
    [ owner |-> "FEValuesBase", name |-> "values",
      flavor |-> "indices", line |-> 3345,
      checks |-> <<"indices_multiple", "update_values">> ],
    [ owner |-> "FEValuesBase", name |-> "values",
      flavor |-> "indices", line |-> 3376,
      checks |-> <<"update_values", "indices_multiple">> ],
    [ owner |-> "FEValuesBase", name |-> "gradients",
      flavor |-> "fe_function", line |-> 3409,
      checks |-> <<"update_gradients", "n_components", "is_initialized", "fe_function_size",
                   "get_interpolated_dof_values">> ],
    [ owner |-> "FEValuesBase", name |-> "gradients",
      flavor |-> "indices", line |-> 3434,
      checks |-> <<"update_gradients", "n_components", "indices_size">> ],
    [ owner |-> "FEValuesBase", name |-> "gradients",
      flavor |-> "fe_function", line |-> 3459,
      checks |-> <<"update_gradients", "is_initialized", "fe_function_size",
                   "get_interpolated_dof_values">> ],
    [ owner |-> "FEValuesBase", name |-> "gradients",
      flavor |-> "indices", line |-> 3487,
      checks |-> <<"indices_multiple", "update_gradients">> ],
    [ owner |-> "FEValuesBase", name |-> "hessians",
      flavor |-> "fe_function", line |-> 3520,
      checks |-> <<"n_components", "update_hessians", "is_initialized", "fe_function_size",
                   "get_interpolated_dof_values">> ],
    [ owner |-> "FEValuesBase", name |-> "hessians",
      flavor |-> "indices", line |-> 3545,
      checks |-> <<"update_hessians", "fe_function_size", "indices_size">> ],
    [ owner |-> "FEValuesBase", name |-> "hessians",
      flavor |-> "fe_function", line |-> 3570,
      checks |-> <<"update_hessians", "is_initialized", "fe_function_size",
                   "get_interpolated_dof_values">> ],
    [ owner |-> "FEValuesBase", name |-> "hessians",
      flavor |-> "indices", line |-> 3600,
      checks |-> <<"update_hessians", "indices_multiple">> ],
    [ owner |-> "FEValuesBase", name |-> "laplacians",
      flavor |-> "fe_function", line |-> 3631,
      checks |-> <<"update_hessians", "n_components", "is_initialized", "fe_function_size",
                   "get_interpolated_dof_values">> ],
    [ owner |-> "FEValuesBase", name |-> "laplacians",
      flavor |-> "indices", line |-> 3655,
      checks |-> <<"update_hessians", "n_components", "indices_size">> ],
    [ owner |-> "FEValuesBase", name |-> "laplacians",
      flavor |-> "fe_function", line |-> 3679,
      checks |-> <<"is_initialized", "update_hessians", "fe_function_size",
                   "get_interpolated_dof_values">> ],
    [ owner |-> "FEValuesBase", name |-> "laplacians",
      flavor |-> "indices", line |-> 3705,
      checks |-> <<"indices_multiple", "update_hessians">> ],
    [ owner |-> "FEValuesBase", name |-> "laplacians",
      flavor |-> "indices", line |-> 3736,
      checks |-> <<"indices_multiple", "update_hessians">> ],
    [ owner |-> "FEValuesBase", name |-> "third_derivatives",
      flavor |-> "fe_function", line |-> 3766,
      checks |-> <<"n_components", "update_3rd_derivatives", "is_initialized", "fe_function_size",
                   "get_interpolated_dof_values">> ],
    [ owner |-> "FEValuesBase", name |-> "third_derivatives",
      flavor |-> "indices", line |-> 3792,
      checks |-> <<"update_3rd_derivatives", "fe_function_size", "indices_size">> ],
    [ owner |-> "FEValuesBase", name |-> "third_derivatives",
      flavor |-> "fe_function", line |-> 3818,
      checks |-> <<"update_3rd_derivatives", "is_initialized", "fe_function_size",
                   "get_interpolated_dof_values">> ],
    [ owner |-> "FEValuesBase", name |-> "third_derivatives",
      flavor |-> "indices", line |-> 3848,
      checks |-> <<"update_3rd_derivatives", "indices_multiple">> ]
  }

\* what the caller hands in: whether fe_function has as many entries as the
\* DoFHandler has degrees of freedom, whether indices or dof_values has
\* dofs_per_cell entries, a greater multiple of it, or another number, and
\* whether the output array has n_quadrature_points entries or another
\* number
CallArguments ==
  [ fe_function_size_ok : BOOLEAN,
    local_size          : {"exact", "multiple", "other"},
    output_size         : {"exact", "other"} ]

\* CellIteratorContainer::n_dofs_for_dof_handler and
\* ::get_interpolated_dof_values: their two assertions
n_dofs_for_dof_handler(present_cell) ==
  IF ~present_cell.initialized THEN "ExcNotReinited"
  ELSE IF ~present_cell.dof_handler THEN "ExcNeedsDoFHandler"
  ELSE "ok"

\* checks that pass whatever the update flags are
check_without_flags(name, obj, element, args) ==
  CASE name \in ValueFlags -> "ok"
    [] name = "n_components" ->
         IF element.n_components = 1 THEN "ok" ELSE "ExcDimensionMismatch"
    [] name = "is_initialized" ->
         IF obj.present_cell.initialized THEN "ok" ELSE "ExcNotReinited"
    [] name = "fe_function_size" ->
         IF n_dofs_for_dof_handler(obj.present_cell) # "ok"
           THEN n_dofs_for_dof_handler(obj.present_cell)
           ELSE IF args.fe_function_size_ok THEN "ok"
                                            ELSE "ExcDimensionMismatch"
    [] name = "get_interpolated_dof_values" ->
         n_dofs_for_dof_handler(obj.present_cell)
    [] name \in {"indices_size", "dof_values_size"} ->
         IF args.local_size = "exact" THEN "ok" ELSE "ExcDimensionMismatch"
    [] name = "indices_multiple" ->
         IF args.local_size \in {"exact", "multiple"} THEN "ok"
                                                      ELSE "ExcNotMultiple"
    [] name = "output_size" ->
         IF args.output_size = "exact" THEN "ok" ELSE "ExcDimensionMismatch"

\* one check of an accessor: "ok" or the exception it raises
check(name, obj, element, args) ==
  CASE name \in ValueFlags ->
         IF name \in obj.update_flags THEN "ok"
                                      ELSE "ExcAccessToUninitializedField"
    [] name = "n_components" ->
         IF element.n_components = 1 THEN "ok" ELSE "ExcDimensionMismatch"
    [] name = "is_initialized" ->
         IF obj.present_cell.initialized THEN "ok" ELSE "ExcNotReinited"
    [] name = "fe_function_size" ->
         IF n_dofs_for_dof_handler(obj.present_cell) # "ok"
           THEN n_dofs_for_dof_handler(obj.present_cell)
           ELSE IF args.fe_function_size_ok THEN "ok"
                                            ELSE "ExcDimensionMismatch"
    [] name = "get_interpolated_dof_values" ->
         n_dofs_for_dof_handler(obj.present_cell)
    [] name \in {"indices_size", "dof_values_size"} ->
         IF args.local_size = "exact" THEN "ok" ELSE "ExcDimensionMismatch"
    [] name = "indices_multiple" ->
         IF args.local_size \in {"exact", "multiple"} THEN "ok"
                                                      ELSE "ExcNotMultiple"
    [] name = "output_size" ->
         IF args.output_size = "exact" THEN "ok" ELSE "ExcDimensionMismatch"

\* the body of an accessor: the first check that fails, or the kernel runs
\* on finite_element_output as it stands, over as many quadrature points as
\* the output array has entries
RECURSIVE run_checks(_, _, _, _)
run_checks(checks, obj, element, args) ==
  IF checks = <<>> THEN "computed"
  ELSE LET r == check(Head(checks), obj, element, args)
       IN  IF r = "ok" THEN run_checks(Tail(checks), obj, element, args)
                       ELSE r

\* the update flags the contexts of this specification are constructed with
AccessorFlags == { {}, {"update_values"}, ValueFlags }

\* their elements: with one component and with two
AccessorElements == {FE_Q, FiniteElement(<<{0, 1}>>, 2)}

\* the cells they are reinitialized on: the first one of each triangulation
AccessorCells == {cell \in Cells : CellTable[cell].vertex = <<0, 1>>}

InitAccessors ==
  /\ \E flags \in AccessorFlags :
       /\ ctx = [c \in Contexts |-> FEValuesBase("FEValues", flags)]
       /\ \E element \in AccessorElements :
            /\ fe = element
            /\ finite_element_output =
                 initialize(NQuadraturePoints, element, flags)
  /\ slots = {}
  /\ n_threads = 1
  /\ codim = 0
  /\ last = NoOperation
  /\ dim = 1
  /\ view = NoView
  /\ result = NoResult

\* a call of an accessor on context c
Call(c, accessor, args) ==
  /\ ctx[c].alive
  /\ result = NoResult
  /\ result' = [ op       |-> "accessor",
                 accessor |-> accessor,
                 args     |-> args,
                 c        |-> c,
                 bound    |-> ctx[c].present_cell.initialized,
                 outcome  |-> run_checks(accessor.checks, ctx[c], fe, args) ]
  /\ UNCHANGED <<dim, fe, finite_element_output, view>>
  /\ UNCHANGED lifecycle_vars

NextAccessors ==
  \/ /\ result = NoResult
     /\ \E c \in Contexts, cell \in AccessorCells :
          \E dof_handler \in BOOLEAN :
            ReinitCell(c, cell, dof_handler, "same")
  \/ /\ result = NoResult
     /\ \E tria \in Trias, event \in MeshEvents : MeshChange(tria, event)
  \/ \E c \in Contexts, accessor \in Accessors, args \in CallArguments :
       Call(c, accessor, args)

SpecAccessors == InitAccessors /\ [][NextAccessors]_vars

\* C2: a request for values, gradients, hessians, laplacians or third
\* derivatives of a finite element function, through any accessor of the
\* context or of a view, fails one of its checks when the context is not
\* bound to a cell.
C2_UnboundRequestFails ==
  (result.op = "accessor" /\ ~result.bound) => result.outcome # "computed"

\* the accessors that do check: those of the views and those of the context
\* that read fe_function at the degrees of freedom of the present cell
C2_CheckedFlavorsFail ==
  (/\ result.op = "accessor"
   /\ ~result.bound
   /\ result.accessor.flavor # "indices") =>
     result.outcome \in {"ExcAccessToUninitializedField", "ExcNotReinited",
                         "ExcDimensionMismatch"}

\* the update flag each kind of request needs
required_update_flag(name) ==
  CASE name = "values" -> "update_values"
    [] name \in {"gradients", "divergences", "curls",
                 "symmetric_gradients"} -> "update_gradients"
    [] name \in {"hessians", "laplacians"} -> "update_hessians"
    [] name = "third_derivatives" -> "update_3rd_derivatives"

\* the checks of an accessor that stand before the given one
checks_before(checks, name) ==
  { checks[i] : i \in { j \in DOMAIN checks :
                          \E k \in DOMAIN checks :
                            checks[k] = name /\ j < k } }

Views == {"Scalar", "Vector", "SymmetricTensor", "Tensor"}

\* C18: a call of an accessor get_function_<name> of a view with an output
\* array whose length is not the number of quadrature points of the
\* context fails a precondition, for every accessor of every view; the
\* kernel does not run over the length of the output array.
C18_OutputSizeMismatchFails ==
  (/\ result.op = "accessor"
   /\ result.accessor.owner \in Views
   /\ result.args.output_size # "exact") =>
     result.outcome # "computed"

\* the accessors that compare the two lengths are the two of
\* Vector::get_function_laplacians; a call of one of them with another
\* length fails, a call of any other accessor of a view computes when its
\* other preconditions hold
C18_OnlyVectorLaplaciansCheck ==
  (/\ result.op = "accessor"
   /\ result.accessor.owner \in Views
   /\ result.args.output_size # "exact"
   /\ required_update_flag(result.accessor.name)
        \in ctx[result.c].update_flags
   /\ ctx[result.c].present_cell.initialized
   /\ ctx[result.c].present_cell.dof_handler
   /\ result.args.fe_function_size_ok
   /\ result.args.local_size = "exact") =>
     IF result.accessor.owner = "Vector" /\
        result.accessor.name = "laplacians"
       THEN result.outcome = "ExcDimensionMismatch"
       ELSE result.outcome = "computed"

-----------------------------------------------------------------------------
(* The specification of the accessors of FEValuesBase that take an index
   array: on an element whose shape data a reinit has filled, one of them
   is called for every global vector, with an index array of
   component_multiple * dofs_per_cell entries *)

\* the index array holds up to MaxCopies times dofs_per_cell indices
MaxCopies == 2

\* the elements these accessors are called on
IndexedElements ==
  UNION { Elements(n, nc) : n \in 1..MaxDofs, nc \in 1..2 }

\* what the words behind an array of coefficients and behind the row table
\* can hold
Memory == [dof_value : {0, 1}, row : {0, invalid_unsigned_int}]

\* the index arrays of a given length: the first indices of the global
\* vector in ascending and in descending order
IndexArrays(n) ==
  { [i \in 0..(n - 1) |-> i], [i \in 0..(n - 1) |-> n - 1 - i] }

InitIndexed ==
  /\ ctx = [c \in Contexts |-> FEValuesBase("FEValues", ValueFlags)]
  /\ slots = {}
  /\ n_threads = 1
  /\ codim = 0
  /\ last = NoOperation
  /\ dim \in Dimensions
  /\ fe \in IndexedElements
  /\ \E seed \in 0..MaxSeed :
       finite_element_output =
         fill_fe_values(initialize(NQuadraturePoints, fe, ValueFlags), seed)
  /\ view = NoView
  /\ result = NoResult

\* the output array handed to an accessor, of the lengths the storage
\* order asks for, whose entries of the given rank hold what they held
\* before
output_arrays(quadrature_points_fastest, n_quadrature_points, result_components, rank, spacedim) ==
  LET stale == [k \in 0..(spacedim ^ rank - 1) |-> 7]
  IN  IF quadrature_points_fastest
        THEN [comp \in 0..(result_components - 1) |->
                [point \in 0..(n_quadrature_points - 1) |-> stale]]
        ELSE [point \in 0..(n_quadrature_points - 1) |->
                [comp \in 0..(result_components - 1) |-> stale]]

\* the record of a call of an accessor for every global vector
IndexedResult(name, order, quadrature_points_fastest, indices, outputs) ==
  [ op                        |-> "indices",
    name                      |-> name,
    order                     |-> order,
    quadrature_points_fastest |-> quadrature_points_fastest,
    component_multiple        |-> size(indices) \div fe.n_dofs_per_cell,
    indices                   |-> indices,
    outputs                   |-> outputs ]

\* fe_values.get_function_values(fe_function, indices, values) with a
\* std::vector<Vector<Number>> values
GetFunctionValuesVectors(c, component_multiple, indices, memory) ==
  /\ result = NoResult
  /\ indices \in IndexArrays(component_multiple * fe.n_dofs_per_cell)
  /\ LET tables == shape_tables(finite_element_output, NQuadraturePoints,
                                dim + codim)
         values == output_arrays(FALSE, NQuadraturePoints,
                                 fe.n_components * component_multiple,
                                 0, dim + codim)
     IN  result' = IndexedResult("values_Vectors", 0, FALSE, indices,
           [ fe_function \in CoefficientArrays(size(indices)) |->
               get_function_values_indices_Vectors("double",
                 ctx[c].update_flags, fe, finite_element_output, tables,
                 fe_function, indices, values, memory) ])
  /\ UNCHANGED <<dim, fe, finite_element_output, view>>
  /\ UNCHANGED lifecycle_vars

\* fe_values.get_function_values(fe_function, indices, values,
\* quadrature_points_fastest)
GetFunctionValues(c, component_multiple, indices, quadrature_points_fastest, memory) ==
  /\ result = NoResult
  /\ indices \in IndexArrays(component_multiple * fe.n_dofs_per_cell)
  /\ LET tables == shape_tables(finite_element_output, NQuadraturePoints,
                                dim + codim)
         values == output_arrays(quadrature_points_fastest,
                                 NQuadraturePoints,
                                 fe.n_components * component_multiple,
                                 0, dim + codim)
     IN  result' = IndexedResult("values", 0, quadrature_points_fastest,
                                 indices,
           [ fe_function \in CoefficientArrays(size(indices)) |->
               get_function_values_indices("double",
                 ctx[c].update_flags, fe, finite_element_output, tables,
                 fe_function, indices, values, quadrature_points_fastest,
                 memory) ])
  /\ UNCHANGED <<dim, fe, finite_element_output, view>>
  /\ UNCHANGED lifecycle_vars

\* fe_values.get_function_gradients(fe_function, indices, gradients,
\* quadrature_points_fastest)
GetFunctionGradients(c, component_multiple, indices, quadrature_points_fastest, memory) ==
  /\ result = NoResult
  /\ indices \in IndexArrays(component_multiple * fe.n_dofs_per_cell)
  /\ LET tables == shape_tables(finite_element_output, NQuadraturePoints,
                                dim + codim)
         gradients == output_arrays(quadrature_points_fastest,
                                    NQuadraturePoints,
                                    fe.n_components * component_multiple,
                                    1, dim + codim)
     IN  result' = IndexedResult("gradients", 1, quadrature_points_fastest,
                                 indices,
           [ fe_function \in CoefficientArrays(size(indices)) |->
               get_function_gradients_indices("double",
                 ctx[c].update_flags, fe, finite_element_output, tables,
                 fe_function, indices, gradients,
                 quadrature_points_fastest, memory) ])
  /\ UNCHANGED <<dim, fe, finite_element_output, view>>
  /\ UNCHANGED lifecycle_vars

\* fe_values.get_function_hessians(fe_function, indices, hessians,
\* quadrature_points_fastest)
GetFunctionHessians(c, component_multiple, indices, quadrature_points_fastest, memory) ==
  /\ result = NoResult
  /\ indices \in IndexArrays(component_multiple * fe.n_dofs_per_cell)
  /\ LET tables == shape_tables(finite_element_output, NQuadraturePoints,
                                dim + codim)
         hessians == output_arrays(quadrature_points_fastest,
                                   NQuadraturePoints,
                                   fe.n_components * component_multiple,
                                   2, dim + codim)
     IN  result' = IndexedResult("hessians", 2, quadrature_points_fastest,
                                 indices,
           [ fe_function \in CoefficientArrays(size(indices)) |->
               get_function_hessians_indices("double",
                 ctx[c].update_flags, fe, finite_element_output, tables,
                 fe_function, indices, hessians,
                 quadrature_points_fastest, memory) ])
  /\ UNCHANGED <<dim, fe, finite_element_output, view>>
  /\ UNCHANGED lifecycle_vars

\* fe_values.get_function_third_derivatives(fe_function, indices,
\* third_derivatives, quadrature_points_fastest)
GetFunctionThirdDerivatives(c, component_multiple, indices, quadrature_points_fastest, memory) ==
  /\ result = NoResult
  /\ indices \in IndexArrays(component_multiple * fe.n_dofs_per_cell)
  /\ LET tables == shape_tables(finite_element_output, NQuadraturePoints,
                                dim + codim)
         third_derivatives ==
           output_arrays(quadrature_points_fastest, NQuadraturePoints,
                         fe.n_components * component_multiple,
                         3, dim + codim)
     IN  result' = IndexedResult("third_derivatives", 3,
                                 quadrature_points_fastest, indices,
           [ fe_function \in CoefficientArrays(size(indices)) |->
               get_function_third_derivatives_indices("double",
                 ctx[c].update_flags, fe, finite_element_output, tables,
                 fe_function, indices, third_derivatives,
                 quadrature_points_fastest, memory) ])
  /\ UNCHANGED <<dim, fe, finite_element_output, view>>
  /\ UNCHANGED lifecycle_vars

\* the index arrays an accessor can be called with
IndexArguments ==
  UNION { IndexArrays(m * fe.n_dofs_per_cell) : m \in 1..MaxCopies }

NextIndexed ==
  \/ \E c \in Contexts, m \in 1..MaxCopies, indices \in IndexArguments,
        memory \in Memory :
       GetFunctionValuesVectors(c, m, indices, memory)
  \/ \E c \in Contexts, m \in 1..MaxCopies, indices \in IndexArguments,
        quadrature_points_fastest \in BOOLEAN, memory \in Memory :
       GetFunctionValues(c, m, indices, quadrature_points_fastest, memory)
  \/ \E c \in Contexts, m \in 1..MaxCopies, indices \in IndexArguments,
        quadrature_points_fastest \in BOOLEAN, memory \in Memory :
       GetFunctionGradients(c, m, indices, quadrature_points_fastest,
                            memory)
  \/ \E c \in Contexts, m \in 1..MaxCopies, indices \in IndexArguments,
        quadrature_points_fastest \in BOOLEAN, memory \in Memory :
       GetFunctionHessians(c, m, indices, quadrature_points_fastest, memory)
  \/ \E c \in Contexts, m \in 1..MaxCopies, indices \in IndexArguments,
        quadrature_points_fastest \in BOOLEAN, memory \in Memory :
       GetFunctionThirdDerivatives(c, m, indices,
                                   quadrature_points_fastest, memory)

SpecIndexed == InitIndexed /\ [][NextIndexed]_vars

\* the entry of an output array for a component and a quadrature point
output_entry(out, comp, point, quadrature_points_fastest) ==
  IF quadrature_points_fastest THEN out[comp][point] ELSE out[point][comp]

\* the sum over the shape functions i that are non-zero in component c of
\* coefficient[k * dofs_per_cell + i] times the entry of the table in the
\* row of the pair (i, c), at a quadrature point
combination_of_copy(coefficient, k, c, point, table) ==
  LET n    == fe.n_dofs_per_cell
      rows == finite_element_output.shape_function_to_row_table
      sum[i \in 0..n] ==
        IF i = 0 THEN zero_like(table[0][point])
        ELSE IF c \in get_nonzero_components(fe, i - 1)
          THEN add_scaled(sum[i - 1], 0, coefficient[k * n + i - 1],
                          table[rows[(i - 1) * fe.n_components + c]][point])
          ELSE sum[i - 1]
  IN  sum[n]

\* the output of a call is, in every copy, component and quadrature point,
\* the combination of the copy
copies_combined(fe_function) ==
  LET r           == result.outputs[fe_function]
      coefficient == [j \in DOMAIN result.indices |->
                        fe_function[result.indices[j]]]
      table       == shape_table(finite_element_output, result.order,
                                 NQuadraturePoints, dim + codim)
  IN  /\ r.failed = {}
      /\ \A k \in 0..(result.component_multiple - 1),
            c \in 0..(fe.n_components - 1),
            point \in 0..(NQuadraturePoints - 1) :
           output_entry(r.out, c + k * fe.n_components, point,
                        result.quadrature_points_fastest) =
             combination_of_copy(coefficient, k, c, point, table)

\* C19: an accessor of FEValuesBase called with an index array of m times
\* dofs_per_cell indices writes, for every copy k < m and every component
\* c, the sum over the shape functions i of coefficient k * dofs_per_cell
\* + i times the shape value in the row of the pair (i, c) to the output
\* component c + k * n_components, for primitive and non-primitive
\* elements and in both storage orders.
C19_CopiesAreCombined ==
  result.op = "indices" =>
    \A fe_function \in DOMAIN result.outputs : copies_combined(fe_function)

\* with one copy the accessors do so
C19_OneCopyIsCombined ==
  (result.op = "indices" /\ result.component_multiple = 1) =>
    \A fe_function \in DOMAIN result.outputs : copies_combined(fe_function)

\* with several copies the accessors that copy every coefficient do so
\* when no shape function of the element is primitive
C19_NonPrimitiveCopiesAreCombined ==
  (/\ result.op = "indices"
   /\ result.name # "values_Vectors"
   /\ \A i \in 0..(fe.n_dofs_per_cell - 1) :
        ~ is_primitive_shape_function(fe, i)) =>
    \A fe_function \in DOMAIN result.outputs : copies_combined(fe_function)

\* the local array of coefficients of a call that passed its assertions
\* holds an extracted coefficient wherever the kernel reads one
every_read_is_extracted(fe_function) ==
  LET r == result.outputs[fe_function]
      n == fe.n_dofs_per_cell
  IN  r.failed \cap {"ExcNotMultiple", "ExcAccessToUninitializedField"} = {} =>
        /\ DOMAIN r.dof_values = 0..(result.component_multiple * n - 1)
        /\ \A mc \in 0..(result.component_multiple - 1),
              shape_func \in 0..(n - 1) :
             /\ shape_func + mc * n \in DOMAIN r.dof_values
             /\ r.dof_values[shape_func + mc * n] =
                  get_vector_element(fe_function,
                                     result.indices[shape_func + mc * n])

\* C28: in every accessor of FEValuesBase that takes an index array, the
\* local array of coefficients handed to the kernel holds
\* component_multiple * dofs_per_cell entries, so that every read
\* coefficient[shape_func + mc * dofs_per_cell] with mc below
\* component_multiple lies inside the array and holds the entry of the
\* global vector at indices[shape_func + mc * dofs_per_cell].
C28_EveryReadIsExtracted ==
  result.op = "indices" =>
    \A fe_function \in DOMAIN result.outputs :
      every_read_is_extracted(fe_function)

\* the accessors that take an ArrayView of outputs do so
C28_ArrayViewFlavorsExtractEveryRead ==
  (result.op = "indices" /\ result.name # "values_Vectors") =>
    \A fe_function \in DOMAIN result.outputs :
      every_read_is_extracted(fe_function)

\* the accessor that takes a std::vector<Vector<Number>> does so for an
\* index array of dofs_per_cell entries
C28_OneCopyIsExtracted ==
  (result.op = "indices" /\ result.component_multiple = 1) =>
    \A fe_function \in DOMAIN result.outputs :
      every_read_is_extracted(fe_function)

-----------------------------------------------------------------------------
(* The specification of the cache of views: the constructor of FEValuesBase
   builds it for an element of up to MaxCacheComponents components, in
   every instantiation <dim, spacedim> with spacedim - dim of 0 or 1 *)

MaxCacheComponents == 10

\* the elements the cache is built for: one shape function that is
\* primitive, or non-zero in every component
CacheElements ==
  UNION { { FiniteElement(<<{0}>>, nc),
            FiniteElement(<<0..(nc - 1)>>, nc) } :
            nc \in 1..MaxCacheComponents }

InitCache ==
  /\ ctx = IdleContexts
  /\ slots = {}
  /\ n_threads = 1
  /\ codim \in {0, 1}
  /\ last = NoOperation
  /\ dim \in Dimensions
  /\ dim + codim \in Dimensions
  /\ fe \in CacheElements
  /\ finite_element_output = NoOutput
  /\ view = NoView
  /\ result = NoResult

\* FEValuesBase::FEValuesBase: fe_values_views_cache(*this)
ConstructCache ==
  /\ view = NoView
  /\ view' = Cache(fe, dim, dim + codim)
  /\ UNCHANGED <<dim, fe, finite_element_output, result>>
  /\ UNCHANGED lifecycle_vars

NextCache == ConstructCache

SpecCache == InitCache /\ [][NextCache]_vars

\* the four lists of the cache with the class of their views
CacheLists ==
  { <<"Scalar", view.scalars>>,
    <<"Vector", view.vectors>>,
    <<"SymmetricTensor", view.symmetric_second_order_tensors>>,
    <<"Tensor", view.second_order_tensors>> }

\* the first components for which the constructor of a view of a class
\* does not fail: the valid windows of the class
ValidWindows(kind) ==
  { first \in 0..(fe.n_components - 1) :
      (CASE kind = "Scalar" -> Scalar(fe, first)
         [] kind = "Vector" -> Vector(fe, first, dim + codim)
         [] kind = "SymmetricTensor" -> SymmetricTensor(fe, first, dim)
         [] kind = "Tensor" -> Tensor(fe, first, dim)).failed = {} }

\* max(0, n_components - K + 1)
windows_of_width(K) ==
  IF fe.n_components - K + 1 > 0 THEN fe.n_components - K + 1 ELSE 0

\* the counts of the four lists are those computed from spacedim, and the
\* view at position k has the component offset k
CacheCounts ==
  LET spacedim == dim + codim
  IN  /\ size(view.scalars) = fe.n_components
      /\ size(view.vectors) = windows_of_width(spacedim)
      /\ size(view.symmetric_second_order_tensors) =
           windows_of_width((spacedim * (spacedim + 1)) \div 2)
      /\ size(view.second_order_tensors) =
           windows_of_width(spacedim * spacedim)
      /\ \A list \in CacheLists :
           \A k \in DOMAIN list[2] :
             list[2][k].kind = list[1] /\ list[2][k].first = k

\* C21: after construction the cache holds n_components Scalar views,
\* max(0, n_components - spacedim + 1) Vector views, max(0, n_components
\* - spacedim*(spacedim+1)/2 + 1) SymmetricTensor views and max(0,
\* n_components - spacedim*spacedim + 1) Tensor views, the view at position
\* k has component offset k, every valid window of consecutive components
\* has exactly one view and no view has an out-of-range window.
C21_CacheHoldsEveryValidWindow ==
  view.kind = "cache" =>
    /\ CacheCounts
    /\ \A list \in CacheLists :
         /\ \A k \in DOMAIN list[2] : list[2][k].failed = {}
         /\ \A first \in ValidWindows(list[1]) :
              Cardinality({k \in DOMAIN list[2] :
                             list[2][k].first = first}) = 1

\* the counts and the offsets are as stated and no view has an
\* out-of-range window, in every instantiation
C21_CountsAndNoViewOutOfRange ==
  view.kind = "cache" =>
    /\ CacheCounts
    /\ \A list \in CacheLists :
         \A k \in DOMAIN list[2] : list[2][k].failed = {}

\* every valid window has exactly one view when dim = spacedim, and in
\* every instantiation for the Scalar and the Vector views
C21_EveryValidWindowWithoutCodimension ==
  view.kind = "cache" =>
    \A list \in CacheLists :
      (codim = 0 \/ list[1] \in {"Scalar", "Vector"}) =>
        \A first \in ValidWindows(list[1]) :
          Cardinality({k \in DOMAIN list[2] : list[2][k].first = first}) = 1

-----------------------------------------------------------------------------
(* The specification of initialize: FEValues::initialize,
   FEFaceValues::initialize and FESubfaceValues::initialize, called by the
   constructors.  The caller and the two tasks it starts take their steps
   in any order; result holds the frame of the call: where the caller is,
   its local flags and the two Threads::Task objects. *)

\* the update flags a constructor is called with
RequestedFlags ==
  SUBSET {"update_values", "update_gradients", "update_JxW_values"}

\* what FiniteElement::requires_update_flags and
\* Mapping::requires_update_flags can answer
FiniteElementRequires == {{}, {"update_JxW_values"}}

MappingRequires == {{}, {"update_quadrature_points"}}

\* FEValuesBase::compute_update_flags, for the answers of the element and
\* of the mapping
compute_update_flags(update_flags, fe_requires, mapping_requires) ==
  (update_flags \cup fe_requires) \cup mapping_requires

\* a default-constructed Threads::Task and Threads::new_task(function)
NoTask == [state |-> "none", function |-> "none"]

new_task(function) == [state |-> "scheduled", function |-> function]

\* the function of the element and of the mapping each class hands to its
\* tasks
get_data_function(kind) ==
  CASE kind = "FEValues"        -> "get_data"
    [] kind = "FEFaceValues"    -> "get_face_data"
    [] kind = "FESubfaceValues" -> "get_subface_data"

\* Threads::Task::return_value(): blocks until the task has finished, then
\* gives what its function returned
return_value(task) ==
  [ blocked |-> task.state # "finished",
    value   |-> task.function \o " result" ]

\* the statement that sets mapping_data without the branch for flags that
\* need no mapping
collect_mapping_data_without_default(flags, mapping_get_data) ==
  IF flags \cap update_mapping # {}
    THEN return_value(mapping_get_data)
    ELSE [blocked |-> FALSE, value |-> "null"]

\* the statement that sets mapping_data: the return value of the task, or
\* a default InternalDataBase when the flags need no mapping
collect_mapping_data(flags, mapping_get_data) ==
  IF flags \cap update_mapping # {}
    THEN return_value(mapping_get_data)
    ELSE [blocked |-> FALSE, value |-> "InternalDataBase()"]

\* the context inside its constructor, before initialize is called
Constructing(kind) ==
  [ alive                        |-> TRUE,
    kind                         |-> kind,
    update_flags                 |-> {},
    present_cell                 |-> NoCell,
    tria_listener_refinement     |-> NoConnection,
    tria_listener_mesh_transform |-> NoConnection,
    cell_similarity              |-> "none",
    mapping_output_initialized   |-> FALSE,
    fe_data                      |-> "null",
    mapping_data                 |-> "null" ]

\* the frame of initialize(update_flags) on context c
Frame(c, update_flags) ==
  [ op               |-> "initialize",
    c                |-> c,
    pc               |-> "called",
    update_flags     |-> update_flags,
    flags            |-> {},
    fe_get_data      |-> NoTask,
    mapping_get_data |-> NoTask,
    finished         |-> <<>> ]

InitInitialize ==
  /\ \E kind \in Kinds : ctx = [c \in Contexts |-> Constructing(kind)]
  /\ slots = {}
  /\ n_threads \in 1..MaxThreads
  /\ codim = 0
  /\ last = NoOperation
  /\ dim = 1
  /\ fe = FE_Q
  /\ finite_element_output = NoOutput
  /\ view = NoView
  /\ \E c \in Contexts, update_flags \in RequestedFlags :
       result = Frame(c, update_flags)

\* const UpdateFlags flags = compute_update_flags(update_flags);
\* mapping_output.initialize, finite_element_output.initialize
ComputeFlags(fe_requires, mapping_requires) ==
  /\ result.pc = "called"
  /\ LET flags == compute_update_flags(result.update_flags, fe_requires,
                                       mapping_requires)
     IN  /\ result' = [result EXCEPT !.pc = "flags", !.flags = flags]
         /\ ctx' = [ctx EXCEPT ![result.c].mapping_output_initialized =
                      flags \cap update_mapping # {}]
         /\ finite_element_output' = initialize(NQuadraturePoints, fe, flags)
  /\ UNCHANGED <<slots, n_threads, codim, last, dim, fe, view>>

\* fe_get_data = Threads::new_task(...)
SpawnFe ==
  /\ result.pc = "flags"
  /\ result' = [result EXCEPT
                  !.pc = "fe_spawned",
                  !.fe_get_data =
                     new_task("fe->" \o
                              get_data_function(ctx[result.c].kind))]
  /\ UNCHANGED <<dim, fe, finite_element_output, view>>
  /\ UNCHANGED lifecycle_vars

\* if (flags & update_mapping) mapping_get_data = Threads::new_task(...)
SpawnMapping ==
  /\ result.pc = "fe_spawned"
  /\ result' = [result EXCEPT
                  !.pc = "spawned",
                  !.mapping_get_data =
                     IF result.flags \cap update_mapping # {}
                       THEN new_task("mapping->" \o
                                     get_data_function(ctx[result.c].kind))
                       ELSE @]
  /\ UNCHANGED <<dim, fe, finite_element_output, view>>
  /\ UNCHANGED lifecycle_vars

\* this->update_flags = flags
SetUpdateFlags ==
  /\ result.pc = "spawned"
  /\ result' = [result EXCEPT !.pc = "collect_fe"]
  /\ ctx' = [ctx EXCEPT ![result.c].update_flags = result.flags]
  /\ UNCHANGED <<slots, n_threads, codim, last>>
  /\ UNCHANGED element_vars_but_result

\* this->fe_data = std::move(fe_get_data.return_value())
CollectFe ==
  /\ result.pc = "collect_fe"
  /\ ~ return_value(result.fe_get_data).blocked
  /\ result' = [result EXCEPT !.pc = "collect_mapping"]
  /\ ctx' = [ctx EXCEPT ![result.c].fe_data =
               return_value(result.fe_get_data).value]
  /\ UNCHANGED <<slots, n_threads, codim, last>>
  /\ UNCHANGED element_vars_but_result

\* this->mapping_data = ... and the return of initialize
CollectMapping ==
  /\ result.pc = "collect_mapping"
  /\ LET collected == collect_mapping_data(result.flags,
                                           result.mapping_get_data)
     IN  /\ ~ collected.blocked
         /\ ctx' = [ctx EXCEPT ![result.c].mapping_data = collected.value]
  /\ result' = [result EXCEPT !.pc = "done"]
  /\ UNCHANGED <<slots, n_threads, codim, last>>
  /\ UNCHANGED element_vars_but_result

\* a worker thread starts a scheduled task
StartTask(task) ==
  /\ result[task].state = "scheduled"
  /\ result' = [result EXCEPT ![task].state = "running"]
  /\ UNCHANGED <<dim, fe, finite_element_output, view>>
  /\ UNCHANGED lifecycle_vars

\* the function of a running task returns
FinishTask(task) ==
  /\ result[task].state = "running"
  /\ result' = [result EXCEPT ![task].state = "finished",
                              !.finished = Append(@, task)]
  /\ UNCHANGED <<dim, fe, finite_element_output, view>>
  /\ UNCHANGED lifecycle_vars

NextInitialize ==
  \/ \E fe_requires \in FiniteElementRequires,
        mapping_requires \in MappingRequires :
       ComputeFlags(fe_requires, mapping_requires)
  \/ SpawnFe
  \/ SpawnMapping
  \/ SetUpdateFlags
  \/ CollectFe
  \/ CollectMapping
  \/ \E task \in {"fe_get_data", "mapping_get_data"} : StartTask(task)
  \/ \E task \in {"fe_get_data", "mapping_get_data"} : FinishTask(task)

SpecInitialize == InitInitialize /\ [][NextInitialize]_vars

\* initialize has returned
Returned == result.op = "initialize" /\ result.pc = "done"

\* C25: initialize starts the setup of the data of the finite element and,
\* when the flags ask for data of the mapping, the setup of the data of
\* the mapping as two tasks and returns only after both have finished: in
\* every interleaving, when it has returned fe_data and mapping_data are
\* set, mapping_data to an empty default when the flags ask for no data of
\* the mapping, and update_flags holds the closed set of flags.
C25_InitializeJoinsBothTasks ==
  Returned =>
    LET obj       == ctx[result.c]
        requested == result.flags \cap update_mapping # {}
    IN  /\ result.fe_get_data.state = "finished"
        /\ obj.fe_data = return_value(result.fe_get_data).value
        /\ obj.fe_data # "null"
        /\ IF requested
             THEN /\ result.mapping_get_data.state = "finished"
                  /\ obj.mapping_data =
                       return_value(result.mapping_get_data).value
             ELSE /\ result.mapping_get_data = NoTask
                  /\ obj.mapping_data = "InternalDataBase()"
        /\ obj.mapping_data # "null"
        /\ obj.update_flags = result.flags
        /\ result.update_flags \subseteq obj.update_flags
        /\ finite_element_output.initialized

C25_Witness ==
  /\ Returned
  /\ result.flags \cap update_mapping # {}
  /\ result.finished = <<"mapping_get_data", "fe_get_data">>
  /\ ctx[result.c].kind = "FEFaceValues"
  /\ ctx[result.c].mapping_data = "mapping->get_face_data result"
  /\ ctx[result.c].fe_data = "fe->get_face_data result"

====
